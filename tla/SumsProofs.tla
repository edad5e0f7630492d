----------------------------- MODULE SumsProofs -----------------------------
(***************************************************************************)
(* Induction and recursion over the naturals in a form without operator    *)
(* parameters, where what holds is a set of numbers and the step of a      *)
(* recursion is a function, and what follows for sums, products and        *)
(* concatenations; and that ranking the members of a finite set by how     *)
(* many are below each enumerates them.                                    *)
(***************************************************************************)
EXTENDS Sums, SequencesExt, WellFoundedInduction, FiniteSetTheorems, TLAPS

\* A set of numbers with 0 and the successor of each of its members holds every
\* number: otherwise there were a least one outside, and its predecessor inside.
LEMMA SetInduction ==
  ASSUME NEW S, 0 \in S, \A n \in Nat : n \in S => n + 1 \in S
  PROVE  Nat \subseteq S
<1>1. SUFFICES ASSUME Nat \ S # {} PROVE FALSE
  OBVIOUS
<1>2. PICK x \in Nat \ S : \A y \in Nat \ S : <<y, x>> \notin OpToRel(<, Nat)
  BY <1>1, WFMin, NatLessThanWellFounded
<1>3. x # 0 /\ x - 1 \in Nat
  OBVIOUS
<1>4. x - 1 \in S
  <2>1. <<x - 1, x>> \in OpToRel(<, Nat)
    BY <1>3 DEF OpToRel
  <2> QED BY <1>2, <1>3, <2>1
<1> QED BY <1>3, <1>4

\* The values up to n of the function that is being defined.
Upto(n, g, V, base, step) ==
    /\ g \in [0..n -> V]
    /\ g[0] = base
    /\ \A i \in 0..(n - 1) : g[i + 1] = step[i + 1][g[i]]

\* What defines a function by its first value and a step, and that there is one.
Recurrence(f, V, base, step) ==
    /\ f \in [Nat -> V]
    /\ f[0] = base
    /\ \A n \in Nat : f[n + 1] = step[n + 1][f[n]]

LEMMA PrimitiveRecursion ==
  ASSUME NEW V, NEW base \in V, NEW step \in [Nat -> [V -> V]]
  PROVE  \E f : Recurrence(f, V, base, step)
<1> DEFINE S == {n \in Nat : \E g : Upto(n, g, V, base, step)}
<1>1. 0 \in S
  <2>1. Upto(0, [i \in 0..0 |-> base], V, base, step)
    BY DEF Upto
  <2> QED BY <2>1
<1>2. ASSUME NEW n \in Nat, n \in S PROVE n + 1 \in S
  <2>1. PICK g : Upto(n, g, V, base, step)
    BY <1>2
  <2> DEFINE h == [i \in 0..(n + 1) |-> IF i = n + 1 THEN step[n + 1][g[n]] ELSE g[i]]
  <2>2. g[n] \in V /\ step[n + 1][g[n]] \in V
    BY <2>1 DEF Upto
  <2>3. h \in [0..(n + 1) -> V] /\ h[0] = base
    BY <2>1, <2>2 DEF Upto
  <2>4. ASSUME NEW i \in 0..n PROVE h[i + 1] = step[i + 1][h[i]]
    <3>1. CASE i = n
      BY <3>1
    <3>2. CASE i \in 0..(n - 1)
      BY <2>1, <3>2 DEF Upto
    <3> QED BY <3>1, <3>2
  <2>5. Upto(n + 1, h, V, base, step)
    <3>1. 0..(n + 1 - 1) = 0..n
      OBVIOUS
    <3> HIDE DEF h
    <3> QED BY <2>3, <2>4, <3>1 DEF Upto
  <2> HIDE DEF h
  <2> QED BY <2>5
<1>3. \A n \in Nat : \E g : Upto(n, g, V, base, step)
  <2>1. Nat \subseteq S
    <3> HIDE DEF S
    <3> QED BY <1>1, <1>2, SetInduction
  <2> QED BY <2>1
<1> DEFINE G(n) == CHOOSE g : Upto(n, g, V, base, step)
<1>4. \A n \in Nat : Upto(n, G(n), V, base, step)
  BY <1>3
<1>5. ASSUME NEW n \in Nat PROVE G(n + 1)[n] = G(n)[n]
  <2>0. Upto(n, G(n), V, base, step) /\ Upto(n + 1, G(n + 1), V, base, step)
    BY <1>4
  <2> HIDE DEF G
  <2> DEFINE T == {i \in Nat : i <= n => G(n + 1)[i] = G(n)[i]}
  <2>1. 0 \in T
    BY <2>0 DEF Upto
  <2>2. ASSUME NEW i \in Nat, i \in T PROVE i + 1 \in T
    BY <2>0, <2>2 DEF Upto
  <2>3. Nat \subseteq T
    <3> HIDE DEF T
    <3> QED BY <2>1, <2>2, SetInduction
  <2> QED BY <2>3
<1> DEFINE f == [n \in Nat |-> G(n)[n]]
<1> HIDE DEF G
<1>6. f \in [Nat -> V]
  BY <1>4 DEF Upto
<1>7. f[0] = base
  BY <1>4 DEF Upto
<1>8. ASSUME NEW n \in Nat PROVE f[n + 1] = step[n + 1][f[n]]
  <2>1. Upto(n + 1, G(n + 1), V, base, step)
    BY <1>4
  <2>2. G(n + 1)[n + 1] = step[n + 1][G(n + 1)[n]]
    BY <2>1 DEF Upto
  <2> QED BY <1>5, <2>2
<1> HIDE DEF f
<1> QED BY <1>6, <1>7, <1>8 DEF Recurrence

-----------------------------------------------------------------------------
\* The equation that defines a sum has a solution, so that the sum is one.
LEMMA SumEquation ==
  ASSUME NEW w \in Seq(Nat)
  PROVE  /\ SumTo(w, 0) = 0
         /\ \A n \in 1..Len(w) : SumTo(w, n) = SumTo(w, n - 1) + w[n]
         /\ \A n \in 0..Len(w) : SumTo(w, n) \in Nat
<1> DEFINE W(i) == IF i \in 1..Len(w) THEN w[i] ELSE 0
           step == [i \in Nat |-> [v \in Nat |-> v + W(i)]]
           P(s) == s = [i \in 0..Len(w) |-> IF i = 0 THEN 0 ELSE s[i - 1] + w[i]]
<1>1. step \in [Nat -> [Nat -> Nat]]
  OBVIOUS
<1>2. PICK f : Recurrence(f, Nat, 0, step)
  <2>1. 0 \in Nat
    OBVIOUS
  <2> HIDE DEF step
  <2> QED BY <1>1, <2>1, PrimitiveRecursion
<1>3. \A n \in 1..Len(w) : f[n] = f[n - 1] + w[n]
  <2> SUFFICES ASSUME NEW n \in 1..Len(w) PROVE f[n] = f[n - 1] + w[n]
    OBVIOUS
  <2>0. n - 1 \in Nat /\ n = (n - 1) + 1 /\ n \in Nat
    OBVIOUS
  <2>1. f[n - 1] \in Nat
    BY <1>2, <2>0 DEF Recurrence
  <2>2. f[n] = step[n][f[n - 1]]
    <3> HIDE DEF step
    <3>1. f[(n - 1) + 1] = step[(n - 1) + 1][f[n - 1]]
      BY <1>2, <2>0 DEF Recurrence
    <3> QED BY <2>0, <3>1
  <2>3. step[n][f[n - 1]] = f[n - 1] + W(n) /\ W(n) = w[n]
    BY <2>0, <2>1
  <2> HIDE DEF step
  <2> QED BY <2>2, <2>3
<1> DEFINE g == [i \in 0..Len(w) |-> f[i]]
<1>4. P(g)
  <2>1. Len(w) \in Nat /\ f[0] = 0
    BY <1>2 DEF Recurrence
  <2>2. ASSUME NEW i \in 0..Len(w) PROVE g[i] = IF i = 0 THEN 0 ELSE g[i - 1] + w[i]
    <3>1. CASE i = 0
      BY <2>1, <3>1
    <3>2. CASE i # 0
      <4>1. i \in 1..Len(w) /\ i - 1 \in 0..Len(w)
        BY <2>1, <3>2
      <4>2. g[i] = f[i] /\ g[i - 1] = f[i - 1]
        BY <4>1
      <4> HIDE DEF g
      <4> QED BY <1>3, <3>2, <4>1, <4>2
    <3> QED BY <3>1, <3>2
  <2>3. g = [i \in 0..Len(w) |-> g[i]]
    OBVIOUS
  <2> HIDE DEF g
  <2> QED BY <2>2, <2>3
<1> DEFINE s == CHOOSE s : P(s)
<1>5. P(s)
  <2> HIDE DEF P, g
  <2> QED BY <1>4
<1>6. \A n : SumTo(w, n) = s[n]
  BY DEF SumTo
<1> HIDE DEF s
<1>7. \A n \in 0..Len(w) : s[n] = IF n = 0 THEN 0 ELSE s[n - 1] + w[n]
  BY <1>5
<1>8. /\ Len(w) \in Nat /\ s[0] = 0 /\ \A n \in 1..Len(w) : w[n] \in Nat
      /\ \A n \in 1..Len(w) : s[n] = s[n - 1] + w[n]
  BY <1>7
<1> HIDE DEF P, step
<1>9. \A n \in 0..Len(w) : s[n] \in Nat
  <2> DEFINE T == {n \in Nat : n <= Len(w) => s[n] \in Nat}
  <2>1. 0 \in T
    BY <1>8
  <2>2. ASSUME NEW n \in Nat, n \in T PROVE n + 1 \in T
    <3>1. CASE n + 1 <= Len(w)
      <4>0. n <= Len(w) /\ n + 1 \in 1..Len(w)
        BY <1>8, <3>1
      <4>1. n + 1 \in 1..Len(w) /\ w[n + 1] \in Nat /\ s[n] \in Nat
        BY <1>8, <2>2, <4>0
      <4>2. s[n + 1] = s[(n + 1) - 1] + w[n + 1] /\ (n + 1) - 1 = n
        BY <1>8, <4>1
      <4> QED BY <4>1, <4>2
    <3> QED BY <1>8, <3>1
  <2>3. Nat \subseteq T
    <3> HIDE DEF T
    <3> QED BY <2>1, <2>2, SetInduction
  <2> QED BY <2>3
<1> QED BY <1>6, <1>8, <1>9

\* Sums ascend.
LEMMA SumsAscend ==
  ASSUME NEW w \in Seq(Nat), NEW m \in 0..Len(w), NEW n \in m..Len(w)
  PROVE  SumTo(w, m) <= SumTo(w, n)
<1>1. Len(w) \in Nat /\ m \in Nat /\ \A i \in 1..Len(w) : w[i] \in Nat
  OBVIOUS
<1>2. /\ \A i \in 1..Len(w) : SumTo(w, i) = SumTo(w, i - 1) + w[i]
      /\ \A i \in 0..Len(w) : SumTo(w, i) \in Nat
  BY SumEquation
<1> DEFINE T == {i \in Nat : m + i <= Len(w) => SumTo(w, m) <= SumTo(w, m + i)}
<1>3. 0 \in T
  BY <1>1, <1>2
<1>4. ASSUME NEW i \in Nat, i \in T PROVE i + 1 \in T
  <2>1. CASE m + (i + 1) <= Len(w)
    <3> DEFINE j == m + (i + 1)
    <3>1. j \in 1..Len(w) /\ j - 1 = m + i /\ m + i <= Len(w) /\ m + i \in 0..Len(w)
      BY <1>1, <2>1
    <3>2. SumTo(w, j) = SumTo(w, m + i) + w[j] /\ w[j] \in Nat
      BY <1>1, <1>2, <3>1
    <3>3. SumTo(w, m) <= SumTo(w, m + i)
      BY <1>4, <3>1
    <3>4. SumTo(w, m) \in Nat /\ SumTo(w, m + i) \in Nat
      BY <1>2, <3>1
    <3> QED BY <3>2, <3>3, <3>4
  <2> QED BY <1>1, <2>1
<1>5. Nat \subseteq T
  <2> HIDE DEF T
  <2> QED BY <1>3, <1>4, SetInduction
<1>6. n - m \in Nat /\ m + (n - m) = n /\ n <= Len(w)
  BY <1>1
<1>7. m + (n - m) <= Len(w) => SumTo(w, m) <= SumTo(w, m + (n - m))
  BY <1>5, <1>6
<1> QED BY <1>6, <1>7

\* Every number below the whole sum lies in one summand.
LEMMA SumsCover ==
  ASSUME NEW w \in Seq(Nat), NEW x \in Nat, x < SumTo(w, Len(w))
  PROVE  \E n \in 1..Len(w) : SumTo(w, n - 1) <= x /\ x < SumTo(w, n)
<1>1. Len(w) \in Nat
  OBVIOUS
<1>2. SumTo(w, 0) = 0 /\ \A i \in 0..Len(w) : SumTo(w, i) \in Nat
  BY SumEquation
<1> SUFFICES ASSUME \A n \in 1..Len(w) : SumTo(w, n - 1) <= x => SumTo(w, n) <= x
             PROVE  FALSE
  <2>1. \A n \in 1..Len(w) : SumTo(w, n) \in Nat
    BY <1>2
  <2> QED BY <2>1
<1> DEFINE T == {i \in Nat : i <= Len(w) => SumTo(w, i) <= x}
<1>3. 0 \in T
  BY <1>2
<1>4. ASSUME NEW i \in Nat, i \in T PROVE i + 1 \in T
  <2>1. CASE i + 1 <= Len(w)
    <3>1. i + 1 \in 1..Len(w) /\ (i + 1) - 1 = i /\ i <= Len(w)
      BY <1>1, <2>1
    <3> QED BY <1>4, <3>1
  <2> QED BY <1>1, <2>1
<1>5. Nat \subseteq T
  <2> HIDE DEF T
  <2> QED BY <1>3, <1>4, SetInduction
<1>6. SumTo(w, Len(w)) <= x
  BY <1>1, <1>5
<1> QED BY <1>1, <1>2, <1>6

\* The summands do not overlap.
LEMMA SumsApart ==
  ASSUME NEW w \in Seq(Nat), NEW x \in Nat, NEW m \in 1..Len(w), NEW n \in 1..Len(w),
         SumTo(w, m - 1) <= x, x < SumTo(w, m), SumTo(w, n - 1) <= x, x < SumTo(w, n)
  PROVE  m = n
<1>1. Len(w) \in Nat /\ m - 1 \in 0..Len(w) /\ n - 1 \in 0..Len(w)
  OBVIOUS
<1>2. \A i \in 0..Len(w) : SumTo(w, i) \in Nat
  BY SumEquation
<1>3. /\ SumTo(w, m) \in Nat /\ SumTo(w, m - 1) \in Nat
      /\ SumTo(w, n) \in Nat /\ SumTo(w, n - 1) \in Nat
  BY <1>1, <1>2
<1>4. CASE m < n
  <2>1. m \in 0..Len(w) /\ n - 1 \in m..Len(w)
    BY <1>1, <1>4
  <2>2. SumTo(w, m) <= SumTo(w, n - 1)
    BY <2>1, SumsAscend
  <2> QED BY <1>3, <2>2
<1>5. CASE n < m
  <2>1. n \in 0..Len(w) /\ m - 1 \in n..Len(w)
    BY <1>1, <1>5
  <2>2. SumTo(w, n) <= SumTo(w, m - 1)
    BY <2>1, SumsAscend
  <2> QED BY <1>3, <2>2
<1> QED BY <1>4, <1>5

-----------------------------------------------------------------------------
\* A recursion that stops at N.
Bounded(g, N, V, base, step) ==
    /\ g \in [0..N -> V]
    /\ g[0] = base
    /\ \A i \in 1..N : g[i] = step[i][g[i - 1]]

LEMMA BoundedRecursion ==
  ASSUME NEW V, NEW N \in Nat, NEW base \in V, NEW step \in [1..N -> [V -> V]]
  PROVE  \E g : Bounded(g, N, V, base, step)
<1> DEFINE more == [i \in Nat |-> IF i \in 1..N THEN step[i] ELSE [v \in V |-> v]]
<1>1. more \in [Nat -> [V -> V]]
  OBVIOUS
<1>2. PICK f : Recurrence(f, V, base, more)
  <2> HIDE DEF more
  <2> QED BY <1>1, PrimitiveRecursion
<1> DEFINE g == [i \in 0..N |-> f[i]]
<1>3. g \in [0..N -> V] /\ g[0] = base
  BY <1>2 DEF Recurrence
<1>4. ASSUME NEW i \in 1..N PROVE g[i] = step[i][g[i - 1]]
  <2>1. i - 1 \in Nat /\ i = (i - 1) + 1 /\ i \in Nat /\ i - 1 \in 0..N /\ i \in 0..N
    OBVIOUS
  <2>2. f[i] = more[i][f[i - 1]]
    <3> HIDE DEF more
    <3>1. f[(i - 1) + 1] = more[(i - 1) + 1][f[i - 1]]
      BY <1>2, <2>1 DEF Recurrence
    <3> QED BY <2>1, <3>1
  <2>3. more[i] = step[i]
    BY <2>1
  <2> HIDE DEF more
  <2> QED BY <2>1, <2>2, <2>3
<1> HIDE DEF g
<1> QED BY <1>3, <1>4 DEF Bounded

LEMMA ProductEquation ==
  ASSUME NEW w \in Seq(Nat)
  PROVE  /\ ProductTo(w, 0) = 1
         /\ \A n \in 1..Len(w) : ProductTo(w, n) = ProductTo(w, n - 1) * w[n]
         /\ \A n \in 0..Len(w) : ProductTo(w, n) \in Nat
<1>0. Len(w) \in Nat /\ \A n \in 1..Len(w) : w[n] \in Nat
  OBVIOUS
<1> DEFINE step == [i \in 1..Len(w) |-> [v \in Nat |-> v * w[i]]]
           P(s) == s = [i \in 0..Len(w) |-> IF i = 0 THEN 1 ELSE s[i - 1] * w[i]]
<1>1. step \in [1..Len(w) -> [Nat -> Nat]]
  BY <1>0
<1>2. PICK g : Bounded(g, Len(w), Nat, 1, step)
  <2>1. 1 \in Nat
    OBVIOUS
  <2> HIDE DEF step
  <2> QED BY <1>0, <1>1, <2>1, BoundedRecursion
<1>3. \A i \in 1..Len(w) : g[i] = g[i - 1] * w[i]
  <2> SUFFICES ASSUME NEW i \in 1..Len(w) PROVE g[i] = g[i - 1] * w[i]
    OBVIOUS
  <2>1. g[i - 1] \in Nat
    <3>1. i - 1 \in 0..Len(w)
      BY <1>0
    <3> HIDE DEF step
    <3> QED BY <1>2, <3>1 DEF Bounded
  <2> QED BY <1>2, <2>1 DEF Bounded
<1>4. P(g)
  <2>1. \A i \in 0..Len(w) : g[i] = IF i = 0 THEN 1 ELSE g[i - 1] * w[i]
    BY <1>0, <1>2, <1>3 DEF Bounded
  <2>2. g = [i \in 0..Len(w) |-> g[i]]
    BY <1>2 DEF Bounded
  <2> QED BY <2>1, <2>2
<1> DEFINE s == CHOOSE s : P(s)
<1>5. P(s)
  <2> HIDE DEF P
  <2> QED BY <1>4
<1>6. \A n : ProductTo(w, n) = s[n]
  BY DEF ProductTo
<1> HIDE DEF s
<1>7. s[0] = 1 /\ \A n \in 1..Len(w) : s[n] = s[n - 1] * w[n]
  <2> HIDE DEF step
  <2>1. s = [i \in 0..Len(w) |-> IF i = 0 THEN 1 ELSE s[i - 1] * w[i]]
    BY <1>5
  <2> HIDE DEF P
  <2>2. \A i \in 0..Len(w) : s[i] = IF i = 0 THEN 1 ELSE s[i - 1] * w[i]
    BY ONLY <2>1
  <2>3. 0 \in 0..Len(w)
    BY <1>0
  <2>4. ASSUME NEW n \in 1..Len(w) PROVE s[n] = s[n - 1] * w[n]
    <3>1. n \in 0..Len(w) /\ n # 0
      BY <1>0
    <3> QED BY <2>2, <3>1
  <2> QED BY <2>2, <2>3, <2>4
<1> HIDE DEF P, step
<1> DEFINE T == {n \in Nat : n <= Len(w) => s[n] \in Nat}
<1>8. 0 \in T
  BY <1>7
<1>9. ASSUME NEW n \in Nat, n \in T PROVE n + 1 \in T
  <2>1. CASE n + 1 <= Len(w)
    <3>1. n + 1 \in 1..Len(w) /\ (n + 1) - 1 = n /\ n <= Len(w)
      BY <1>0, <2>1
    <3>2. s[n] \in Nat /\ w[n + 1] \in Nat /\ s[n + 1] = s[n] * w[n + 1]
      BY <1>0, <1>7, <1>9, <3>1
    <3> QED BY <3>2
  <2> QED BY <1>0, <2>1
<1>10. \A n \in 0..Len(w) : s[n] \in Nat
  <2>1. Nat \subseteq T
    <3> HIDE DEF T
    <3> QED BY <1>8, <1>9, SetInduction
  <2> QED BY <1>0, <2>1
<1> QED BY <1>6, <1>7, <1>10

\* The equations of concatenation.
LEMMA FlattenEquation ==
  ASSUME NEW S, NEW ss \in Seq(Seq(S)), Len(ss) # 0
  PROVE  \E s : /\ FlattenSeq(ss) = s[Len(ss)] /\ s[1] = ss[1]
                /\ \A i \in 2..Len(ss) : s[i] = s[i - 1] \o ss[i]
<1>0. Len(ss) \in Nat /\ \A i \in 1..Len(ss) : ss[i] \in Seq(S)
  OBVIOUS
<1>a. Len(ss) # 0
  OBVIOUS
<1> DEFINE V == Seq(S)
           N == Len(ss) - 1
           step == [i \in 1..N |-> [v \in V |-> v \o ss[i + 1]]]
           P(s) == s = [i \in 1..Len(ss) |-> IF i = 1 THEN ss[i] ELSE s[i - 1] \o ss[i]]
<1>1. N \in Nat /\ ss[1] \in V
  BY <1>0, <1>a
<1>2. step \in [1..N -> [V -> V]]
  <2>1. ASSUME NEW i \in 1..N, NEW v \in V PROVE v \o ss[i + 1] \in V
    <3>1. i + 1 \in 1..Len(ss)
      BY <1>0, <1>a
    <3> QED BY <1>0, <3>1
  <2> HIDE DEF V, N
  <2> QED BY <2>1
<1>3. PICK g : Bounded(g, N, V, ss[1], step)
  <2> HIDE DEF step, V, N
  <2> QED BY <1>1, <1>2, BoundedRecursion
<1>4. ASSUME NEW i \in 1..N PROVE g[i] = g[i - 1] \o ss[i + 1]
  <2>1. g[i - 1] \in V
    <3>1. i - 1 \in 0..N
      BY <1>1
    <3> HIDE DEF V, N
    <3> QED BY <1>3, <3>1 DEF Bounded
  <2> HIDE DEF V, N
  <2> QED BY <1>3, <2>1 DEF Bounded
<1> DEFINE h == [i \in 1..Len(ss) |-> g[i - 1]]
<1>5. P(h)
  <2>1. ASSUME NEW i \in 1..Len(ss)
        PROVE  h[i] = IF i = 1 THEN ss[i] ELSE h[i - 1] \o ss[i]
    <3>1. CASE i = 1
      BY <1>3, <3>1 DEF Bounded
    <3>2. CASE i # 1
      <4>1. i - 1 \in 1..N /\ i - 1 \in 1..Len(ss) /\ (i - 1) + 1 = i
        BY <1>0, <1>a, <3>2
      <4>2. h[i] = g[i - 1] /\ h[i - 1] = g[(i - 1) - 1]
        BY <4>1
      <4>3. g[i - 1] = g[(i - 1) - 1] \o ss[(i - 1) + 1]
        BY <1>4, <4>1
      <4> HIDE DEF h
      <4> QED BY <3>2, <4>1, <4>2, <4>3
    <3> QED BY <3>1, <3>2
  <2>2. h = [i \in 1..Len(ss) |-> h[i]]
    OBVIOUS
  <2> HIDE DEF h
  <2> QED BY <2>1, <2>2
<1> DEFINE s == CHOOSE s : P(s)
<1>6. P(s)
  <2> HIDE DEF P, h
  <2> QED BY <1>5
<1>7. FlattenSeq(ss) = s[Len(ss)]
  BY <1>a DEF FlattenSeq
<1> HIDE DEF s
<1>8. s[1] = ss[1] /\ \A i \in 2..Len(ss) : s[i] = s[i - 1] \o ss[i]
  <2>1. \A i \in 1..Len(ss) : s[i] = IF i = 1 THEN ss[i] ELSE s[i - 1] \o ss[i]
    BY <1>6
  <2> HIDE DEF P
  <2>2. 1 \in 1..Len(ss) /\ \A i \in 2..Len(ss) : i \in 1..Len(ss) /\ i # 1
    BY <1>0, <1>a
  <2> QED BY <2>1, <2>2
<1> HIDE DEF P, h, step
<1> QED BY <1>7, <1>8

NoDoubles(s) == \A i, j \in 1..Len(s) : s[i] = s[j] => i = j

LEMMA Joined ==
  ASSUME NEW S, NEW s \in Seq(S), NEW t \in Seq(S)
  PROVE  /\ s \o t \in Seq(S) /\ ToSet(s \o t) = ToSet(s) \cup ToSet(t)
         /\ NoDoubles(s) /\ NoDoubles(t) /\ ToSet(s) \cap ToSet(t) = {} => NoDoubles(s \o t)
<1> DEFINE u == s \o t
<1>1. /\ u \in Seq(S) /\ Len(u) = Len(s) + Len(t) /\ Len(s) \in Nat /\ Len(t) \in Nat
      /\ DOMAIN u = 1..Len(u) /\ DOMAIN s = 1..Len(s) /\ DOMAIN t = 1..Len(t)
  OBVIOUS
<1>2. ASSUME NEW i \in 1..Len(s) PROVE i \in 1..Len(u) /\ u[i] = s[i]
  BY <1>1
<1>3. ASSUME NEW i \in 1..Len(t) PROVE Len(s) + i \in 1..Len(u) /\ u[Len(s) + i] = t[i]
  BY <1>1
<1>4. ASSUME NEW i \in 1..Len(u)
      PROVE  i \in 1..Len(s) \/ \E j \in 1..Len(t) : i = Len(s) + j
  <2>1. CASE i <= Len(s)
    BY <1>1, <2>1
  <2>2. CASE i > Len(s)
    <3>1. i - Len(s) \in 1..Len(t) /\ i = Len(s) + (i - Len(s))
      BY <1>1, <2>2
    <3> QED BY <3>1
  <2> QED BY <1>1, <2>1, <2>2
<1> HIDE DEF u
<1>5. ToSet(u) = ToSet(s) \cup ToSet(t)
  <2>1. ASSUME NEW x \in ToSet(u) PROVE x \in ToSet(s) \cup ToSet(t)
    <3>1. PICK i \in 1..Len(u) : x = u[i]
      BY <1>1 DEF ToSet
    <3> QED BY <1>1, <1>2, <1>3, <1>4, <3>1 DEF ToSet
  <2>2. ASSUME NEW x \in ToSet(s) PROVE x \in ToSet(u)
    <3>1. PICK i \in 1..Len(s) : x = s[i]
      BY <1>1 DEF ToSet
    <3> QED BY <1>1, <1>2, <3>1 DEF ToSet
  <2>3. ASSUME NEW x \in ToSet(t) PROVE x \in ToSet(u)
    <3>1. PICK i \in 1..Len(t) : x = t[i]
      BY <1>1 DEF ToSet
    <3>2. Len(s) + i \in DOMAIN u /\ u[Len(s) + i] = x
      BY <1>1, <1>3, <3>1
    <3> QED BY <3>2 DEF ToSet
  <2> QED BY <2>1, <2>2, <2>3
<1>6. ASSUME NoDoubles(s), NoDoubles(t), ToSet(s) \cap ToSet(t) = {} PROVE NoDoubles(u)
  <2>1. \A i \in 1..Len(s), j \in 1..Len(t) : s[i] # t[j]
    BY <1>1, <1>6 DEF ToSet
  <2>2. SUFFICES ASSUME NEW i \in 1..Len(u), NEW j \in 1..Len(u), u[i] = u[j] PROVE i = j
    BY DEF NoDoubles
  <2>3. CASE i \in 1..Len(s) /\ j \in 1..Len(s)
    BY <1>2, <1>6, <2>2, <2>3 DEF NoDoubles
  <2>4. CASE i \in 1..Len(s) /\ j \notin 1..Len(s)
    BY <1>2, <1>3, <1>4, <2>1, <2>2, <2>4, SMTT(40)
  <2>5. CASE i \notin 1..Len(s) /\ j \in 1..Len(s)
    BY <1>2, <1>3, <1>4, <2>1, <2>2, <2>5, SMTT(40)
  <2>6. CASE i \notin 1..Len(s) /\ j \notin 1..Len(s)
    <3>1. PICK a \in 1..Len(t) : i = Len(s) + a
      BY <1>4, <2>6
    <3>2. PICK b \in 1..Len(t) : j = Len(s) + b
      BY <1>4, <2>6
    <3>3. t[a] = t[b]
      BY <1>3, <2>2, <3>1, <3>2
    <3> QED BY <1>6, <3>1, <3>2, <3>3 DEF NoDoubles
  <2> QED BY <2>3, <2>4, <2>5, <2>6
<1> QED BY <1>1, <1>5, <1>6 DEF u

\* What is concatenated from sequences over S is one, of all their elements,
\* each of them once if it is once in one of them only.
LEMMA FlattenedOnce ==
  ASSUME NEW S, NEW ss \in Seq(Seq(S))
  PROVE  /\ FlattenSeq(ss) \in Seq(S)
         /\ ToSet(FlattenSeq(ss)) = UNION {ToSet(ss[i]) : i \in 1..Len(ss)}
         /\ /\ \A i \in 1..Len(ss) : NoDoubles(ss[i])
            /\ \A i, j \in 1..Len(ss) : i # j => ToSet(ss[i]) \cap ToSet(ss[j]) = {}
            => NoDoubles(FlattenSeq(ss))
<1> DEFINE V == Seq(S)
           Upon(n) == UNION {ToSet(ss[i]) : i \in 1..n}
           Apart == /\ \A i \in 1..Len(ss) : NoDoubles(ss[i])
                    /\ \A i, j \in 1..Len(ss) : i # j => ToSet(ss[i]) \cap ToSet(ss[j]) = {}
<1>0. Len(ss) \in Nat /\ \A i \in 1..Len(ss) : ss[i] \in V
  OBVIOUS
<1>1. CASE Len(ss) = 0
  <2>1. FlattenSeq(ss) = ss /\ ss = <<>>
    BY <1>1 DEF FlattenSeq
  <2>2. ToSet(<<>>) = {} /\ NoDoubles(<<>>) /\ <<>> \in Seq(S)
    BY DEF ToSet, NoDoubles
  <2>3. Upon(Len(ss)) = {}
    BY <1>1
  <2> QED BY <2>1, <2>2, <2>3
<1>2. CASE Len(ss) # 0
  <2>1. PICK s : /\ FlattenSeq(ss) = s[Len(ss)] /\ s[1] = ss[1]
                 /\ \A i \in 2..Len(ss) : s[i] = s[i - 1] \o ss[i]
    BY <1>2, FlattenEquation
  <2> DEFINE Right(n) == /\ s[n] \in V /\ ToSet(s[n]) = Upon(n)
                         /\ Apart => NoDoubles(s[n])
             T == {n \in Nat : n + 1 <= Len(ss) => Right(n + 1)}
  <2>2. 0 \in T
    <3>1. Upon(1) = ToSet(ss[1])
      OBVIOUS
    <3>2. 1 \in 1..Len(ss)
      BY <1>0, <1>2
    <3> HIDE DEF Upon, V
    <3>3. Right(1)
      BY <1>0, <2>1, <3>1, <3>2
    <3> HIDE DEF Right
    <3> QED BY <3>3
  <2>3. ASSUME NEW n \in Nat, n \in T PROVE n + 1 \in T
    <3> DEFINE m == n + 1
    <3>1. CASE m + 1 <= Len(ss)
      <4>1. m \in Nat /\ m + 1 \in 2..Len(ss) /\ m + 1 \in 1..Len(ss) /\ (m + 1) - 1 = m
            /\ m <= Len(ss) /\ m \in 1..Len(ss)
        BY <1>0, <3>1
      <4>2. Right(m)
        BY <2>3, <4>1
      <4> HIDE DEF m, T
      <4>3. s[m + 1] = s[m] \o ss[m + 1] /\ s[m] \in V /\ ss[m + 1] \in V
        BY <1>0, <2>1, <4>1, <4>2
      <4>4. Upon(m + 1) = Upon(m) \cup ToSet(ss[m + 1])
        <5>1. 1..(m + 1) = (1..m) \cup {m + 1}
          BY <4>1
        <5> QED BY <5>1
      <4>5. ASSUME Apart PROVE Upon(m) \cap ToSet(ss[m + 1]) = {}
        <5>1. ASSUME NEW i \in 1..m PROVE ToSet(ss[i]) \cap ToSet(ss[m + 1]) = {}
          <6>1. i \in 1..Len(ss) /\ i # m + 1
            BY <1>0, <4>1
          <6> QED BY <4>1, <4>5, <6>1
        <5> QED BY <5>1
      <4>6. ASSUME Apart PROVE NoDoubles(ss[m + 1])
        BY <4>1, <4>6
      <4> DEFINE u == s[m]
                 v == ss[m + 1]
      <4>7. ToSet(u) = Upon(m) /\ (Apart => NoDoubles(u)) /\ u \in Seq(S) /\ v \in Seq(S)
        BY <4>2, <4>3
      <4>8. s[m + 1] = u \o v
        BY <4>3
      <4> HIDE DEF Upon, Apart, u, v
      <4>9. /\ u \o v \in Seq(S) /\ ToSet(u \o v) = ToSet(u) \cup ToSet(v)
            /\ NoDoubles(u) /\ NoDoubles(v) /\ ToSet(u) \cap ToSet(v) = {} => NoDoubles(u \o v)
        BY <4>7, Joined
      <4>10. Apart => NoDoubles(u \o v)
        BY <4>5, <4>6, <4>7, <4>9 DEF v
      <4>11. ToSet(u \o v) = Upon(m + 1)
        BY <4>4, <4>7, <4>9 DEF v
      <4>12. Right(m + 1)
        BY <4>8, <4>9, <4>10, <4>11
      <4> QED BY <4>1, <4>12 DEF m, T
    <3>2. CASE ~(m + 1 <= Len(ss))
      BY <3>2
    <3> QED BY <3>1, <3>2
  <2>4. Nat \subseteq T
    <3> HIDE DEF T
    <3> QED BY <2>2, <2>3, SetInduction
  <2>5. Right(Len(ss))
    <3>1. Len(ss) - 1 \in Nat /\ (Len(ss) - 1) + 1 = Len(ss)
      BY <1>0, <1>2
    <3> DEFINE n == Len(ss) - 1
    <3>2. n \in T /\ n + 1 = Len(ss) /\ n + 1 <= Len(ss)
      <4> HIDE DEF T
      <4> QED BY <1>0, <2>4, <3>1
    <3> HIDE DEF Right, n
    <3>3. Right(n + 1)
      BY <3>2
    <3> QED BY <3>2, <3>3
  <2> QED BY <2>1, <2>5
<1> QED BY <1>1, <1>2

LEMMA Flattened ==
  ASSUME NEW S, NEW ss \in Seq(Seq(S))
  PROVE  FlattenSeq(ss) \in Seq(S)
BY FlattenedOnce

\* B[x] holds x and what is below it.  To rank by the number of those is to
\* enumerate, and keeps the order.
LEMMA Ranks ==
  ASSUME NEW S, IsFiniteSet(S), NEW B \in [S -> SUBSET S],
         \A x \in S : x \in B[x],
         \A x, y \in S : x \in B[y] \/ y \in B[x],
         \A x, y \in S : x \in B[y] => B[x] \subseteq B[y],
         \A x, y \in S : x \in B[y] /\ y \in B[x] => x = y
  PROVE  /\ Cardinality(S) \in Nat
         /\ \A x \in S : Cardinality(B[x]) \in 1..Cardinality(S)
         /\ \A p \in 1..Cardinality(S) : \E x \in S : Cardinality(B[x]) = p
         /\ \A x, y \in S : Cardinality(B[x]) <= Cardinality(B[y]) <=> x \in B[y]
<1>1. Cardinality(S) \in Nat
  BY FS_CardinalityType
<1>2. ASSUME NEW x \in S
      PROVE  IsFiniteSet(B[x]) /\ Cardinality(B[x]) \in 1..Cardinality(S)
  <2>1. B[x] \in SUBSET S
    OBVIOUS
  <2>2. IsFiniteSet(B[x]) /\ Cardinality(B[x]) <= Cardinality(S)
    BY <2>1, FS_Subset
  <2>3. Cardinality(B[x]) \in Nat
    BY <2>2, FS_CardinalityType
  <2>4. B[x] # {}
    OBVIOUS
  <2>5. Cardinality(B[x]) # 0
    BY <2>2, <2>4, FS_EmptySet
  <2> QED BY <1>1, <2>2, <2>3, <2>5
<1>3. ASSUME NEW x \in S, NEW y \in S, x \in B[y], x # y
      PROVE  Cardinality(B[x]) < Cardinality(B[y])
  <2>1. B[x] \in SUBSET B[y] /\ y \in B[y] /\ y \notin B[x]
    BY <1>3
  <2>2. IsFiniteSet(B[y])
    BY <1>2
  <2>3. Cardinality(B[x]) <= Cardinality(B[y]) /\ Cardinality(B[x]) # Cardinality(B[y])
    BY <2>1, <2>2, FS_Subset
  <2>4. Cardinality(B[x]) \in Nat /\ Cardinality(B[y]) \in Nat
    BY <1>1, <1>2
  <2> QED BY <2>3, <2>4
<1> DEFINE rank == [x \in S |-> Cardinality(B[x])]
           N == 1..Cardinality(S)
<1>4. rank \in Injection(S, N)
  <2>1. rank \in [S -> N]
    BY <1>2
  <2>2. ASSUME NEW x \in S, NEW y \in S, rank[x] = rank[y] PROVE x = y
    <3>1. rank[x] = Cardinality(B[x]) /\ rank[y] = Cardinality(B[y])
      OBVIOUS
    <3>2. Cardinality(B[x]) \in Nat /\ Cardinality(B[y]) \in Nat
      BY <1>1, <1>2
    <3>3. Cardinality(B[x]) = Cardinality(B[y])
      BY <2>2, <3>1
    <3>4. x \in B[y] \/ y \in B[x]
      OBVIOUS
    <3> HIDE DEF rank
    <3> QED BY <1>3, <3>2, <3>3, <3>4
  <2> HIDE DEF rank
  <2> QED BY <2>1, <2>2 DEF Injection, IsInjective
<1>5. IsFiniteSet(N) /\ Cardinality(N) = Cardinality(S)
  BY <1>1, FS_Interval
<1>6. rank \in Surjection(S, N)
  <2> HIDE DEF rank, N
  <2> QED BY <1>4, <1>5, FS_Injection
<1>7. \A p \in N : \E x \in S : Cardinality(B[x]) = p
  BY <1>6 DEF Surjection
<1>8. ASSUME NEW x \in S, NEW y \in S
      PROVE  Cardinality(B[x]) <= Cardinality(B[y]) <=> x \in B[y]
  <2>1. Cardinality(B[x]) \in Nat /\ Cardinality(B[y]) \in Nat
    BY <1>1, <1>2
  <2>2. CASE x = y
    BY <2>1, <2>2
  <2>3. CASE x # y
    BY <1>3, <2>1, <2>3
  <2> QED BY <2>2, <2>3
<1> QED BY <1>1, <1>2, <1>7, <1>8

-----------------------------------------------------------------------------
(* Remainders.                                                              *)

LEMMA Multiple ==
  ASSUME NEW W \in Nat \ {0}, NEW d \in Int, d >= 1
  PROVE  W * d >= W
<1>1. d - 1 \in Nat
  OBVIOUS
<1>2. W * (d - 1) \in Nat
  BY <1>1
<1>3. W * d = W * (d - 1) + W
  OBVIOUS
<1> QED BY <1>2, <1>3

\* Division with rest is unique.
LEMMA RestIsUnique ==
  ASSUME NEW W \in Nat \ {0}, NEW q \in Int, NEW r \in 0..(W - 1)
  PROVE  (W * q + r) % W = r
<1> DEFINE a == W * q + r
           s == a % W
           t == a \div W
<1>1. a \in Int /\ W * q \in Int /\ W * t \in Int
  OBVIOUS
<1>2. a = W * t + s /\ s \in 0..(W - 1) /\ t \in Int
  BY <1>1
<1> HIDE DEF s, t
<1>3. W * (q - t) = s - r /\ W * (t - q) = r - s
  BY <1>2
<1>4. ~(q - t >= 1)
  <2> DEFINE d == q - t
  <2>1. d \in Int /\ W * d = s - r
    BY <1>2, <1>3
  <2> HIDE DEF d
  <2>2. ~(d >= 1)
    BY <1>2, <2>1, Multiple
  <2> QED BY <2>2 DEF d
<1>5. ~(t - q >= 1)
  <2> DEFINE d == t - q
  <2>1. d \in Int /\ W * d = r - s
    BY <1>2, <1>3
  <2> HIDE DEF d
  <2>2. ~(d >= 1)
    BY <1>2, <2>1, Multiple
  <2> QED BY <2>2 DEF d
<1>6. q = t
  BY <1>2, <1>4, <1>5
<1>7. r = s
  BY <1>2, <1>6
<1> QED BY <1>7 DEF s

LEMMA WrapOnce ==
  ASSUME NEW W \in Nat \ {0}, NEW b \in Int, NEW e \in Int
  PROVE  ((b % W) + e) % W = (b + e) % W
<1> DEFINE q == b \div W
           r == b % W
           t == (r + e) \div W
           s == (r + e) % W
<1>1. b = W * q + r /\ q \in Int /\ r \in Int
  OBVIOUS
<1> HIDE DEF r, q
<1>2. r + e = W * t + s /\ t \in Int /\ s \in 0..(W - 1)
  BY <1>1
<1>3. W * q \in Int /\ W * t \in Int /\ W * (q + t) = W * q + W * t
  BY <1>1, <1>2
<1>4. b + e = W * (q + t) + s
  BY <1>1, <1>2, <1>3
<1> HIDE DEF t, s
<1>5. (W * (q + t) + s) % W = s
  BY <1>1, <1>2, RestIsUnique
<1>6. (b + e) % W = s
  BY <1>4, <1>5
<1> QED BY <1>6 DEF s, r
=============================================================================
