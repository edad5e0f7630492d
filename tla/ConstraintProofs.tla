--------------------------- MODULE ConstraintProofs ---------------------------
(***************************************************************************)
(* Proofs about Constraint, for any names and numerals and for queries of  *)
(* any length.                                                             *)
(***************************************************************************)
EXTENDS Constraint, SumsProofs, SequenceTheorems

-----------------------------------------------------------------------------
(* Places in order.                                                         *)

\* Ascending numbers the members of a set: the k-th has k that are not above it.
LEMMA AscendingIs ==
  ASSUME NEW S \in SUBSET Nat, IsFiniteSet(S), NEW c, c = Ascending(S), NEW N, N = Cardinality(S)
  PROVE  /\ N \in Nat /\ c = [k \in 1..N |-> c[k]] /\ Len(c) = N
         /\ \A k \in 1..N : c[k] \in S
         /\ \A i, j \in 1..N : c[i] <= c[j] <=> i <= j
         /\ \A x \in S : \E k \in 1..N : c[k] = x
         /\ \A k \in 1..N : Cardinality({j \in S : j <= c[k]}) = k
         /\ \A k \in 1..N : \A x \in S : Cardinality({j \in S : j <= x}) = k => c[k] = x
<1> DEFINE B == [x \in S |-> {j \in S : j <= x}]
<1>1. /\ N \in Nat
      /\ \A x \in S : Cardinality(B[x]) \in 1..N
      /\ \A p \in 1..N : \E x \in S : Cardinality(B[x]) = p
      /\ \A x, y \in S : Cardinality(B[x]) <= Cardinality(B[y]) <=> x \in B[y]
  <2>a. \A x, y \in S : x \in B[y] <=> x <= y
    OBVIOUS
  <2>b. B \in [S -> SUBSET S]
    OBVIOUS
  <2>1. /\ B \in [S -> SUBSET S]
        /\ \A x \in S : x \in B[x]
        /\ \A x, y \in S : x \in B[y] \/ y \in B[x]
        /\ \A x, y \in S : x \in B[y] => B[x] \subseteq B[y]
        /\ \A x, y \in S : x \in B[y] /\ y \in B[x] => x = y
    <3> HIDE DEF B
    <3>1. \A x, y \in S : x \in B[y] => B[x] \subseteq B[y]
      <4> SUFFICES ASSUME NEW x \in S, NEW y \in S, x \in B[y], NEW z \in B[x] PROVE z \in B[y]
        OBVIOUS
      <4>1. z \in S
        BY <2>b
      <4>2. z <= x /\ x <= y
        BY <2>a, <4>1
      <4>3. z \in Nat /\ x \in Nat /\ y \in Nat
        BY <4>1
      <4>4. z <= y
        BY <4>2, <4>3
      <4> QED BY <2>a, <4>1, <4>4
    <3> QED BY <2>a, <2>b, <3>1
  <2> HIDE DEF B
  <2> QED BY <2>1, Ranks
<1>2. ASSUME NEW k \in 1..N
      PROVE  c[k] \in S /\ Cardinality(B[c[k]]) = k
  <2>1. \E x \in S : Cardinality({j \in S : j <= x}) = k
    BY <1>1
  <2>2. c[k] = CHOOSE x \in S : Cardinality({j \in S : j <= x}) = k
    BY DEF Ascending
  <2>3. c[k] \in S /\ Cardinality({j \in S : j <= c[k]}) = k
    BY <2>1, <2>2
  <2> QED BY <2>3
<1>3. \A x, y \in S : Cardinality(B[x]) = Cardinality(B[y]) => x = y
  <2> SUFFICES ASSUME NEW x \in S, NEW y \in S, Cardinality(B[x]) = Cardinality(B[y])
               PROVE  x = y
    OBVIOUS
  <2>1. Cardinality(B[x]) \in Nat /\ Cardinality(B[y]) \in Nat
    BY <1>1
  <2>2. x \in B[y] /\ y \in B[x]
    <3> HIDE DEF B
    <3> QED BY <1>1, <2>1
  <2> QED BY <2>2
<1>4. c = [k \in 1..N |-> c[k]] /\ Len(c) = N
  <2> DEFINE e(k) == CHOOSE i \in S : Cardinality({j \in S : j <= i}) = k
  <2>1. c = [k \in 1..N |-> e(k)]
    BY DEF Ascending
  <2> HIDE DEF e
  <2> QED BY <1>1, <2>1
<1>5. \A i, j \in 1..N : c[i] <= c[j] <=> i <= j
  <2> SUFFICES ASSUME NEW i \in 1..N, NEW j \in 1..N
               PROVE  c[i] <= c[j] <=> i <= j
    OBVIOUS
  <2>1. c[i] \in B[c[j]] <=> c[i] <= c[j]
    BY <1>2
  <2> HIDE DEF B
  <2>2. Cardinality(B[c[i]]) = i /\ Cardinality(B[c[j]]) = j /\ c[i] \in S /\ c[j] \in S
    BY <1>2
  <2>3. Cardinality(B[c[i]]) <= Cardinality(B[c[j]]) <=> c[i] \in B[c[j]]
    BY <1>1, <2>2
  <2> QED BY <2>1, <2>2, <2>3
<1>6. \A x \in S : \E k \in 1..N : c[k] = x
  <2> HIDE DEF B
  <2> SUFFICES ASSUME NEW x \in S PROVE \E k \in 1..N : c[k] = x
    OBVIOUS
  <2>1. PICK k \in 1..N : k = Cardinality(B[x])
    BY <1>1
  <2>2. c[k] \in S /\ Cardinality(B[c[k]]) = Cardinality(B[x])
    BY <1>2, <2>1
  <2> QED BY <1>3, <2>2
<1>7. \A k \in 1..N : \A x \in S : Cardinality({j \in S : j <= x}) = k => c[k] = x
  <2> SUFFICES ASSUME NEW k \in 1..N, NEW x \in S, Cardinality({j \in S : j <= x}) = k
               PROVE  c[k] = x
    OBVIOUS
  <2>1. Cardinality(B[x]) = k
    OBVIOUS
  <2> HIDE DEF B
  <2> QED BY <1>2, <1>3, <2>1
<1>8. \A k \in 1..N : Cardinality({j \in S : j <= c[k]}) = k
  <2> SUFFICES ASSUME NEW k \in 1..N PROVE Cardinality({j \in S : j <= c[k]}) = k
    OBVIOUS
  <2>1. B[c[k]] = {j \in S : j <= c[k]}
    BY <1>2
  <2> HIDE DEF B
  <2> QED BY <1>2, <2>1
<1> HIDE DEF B
<1> QED BY <1>1, <1>2, <1>4, <1>5, <1>6, <1>7, <1>8

\* A place after all others adds the element there at the end.
LEMMA OneMorePlace ==
  ASSUME NEW S \in SUBSET Nat, IsFiniteSet(S), NEW n \in Nat, \A x \in S : x < n, NEW s
  PROVE  AtPlaces(s, S \cup {n}) = Append(AtPlaces(s, S), s[n])
<1> DEFINE T == S \cup {n}
           N == Cardinality(S)
           c == Ascending(S)
           d == Ascending(T)
<1>1. T \in SUBSET Nat /\ IsFiniteSet(T) /\ Cardinality(T) = N + 1 /\ N \in Nat
  <2>1. n \notin S
    OBVIOUS
  <2> QED BY <2>1, FS_AddElement, FS_CardinalityType
<1>2. /\ \A k \in 1..N : c[k] \in S
      /\ \A i, j \in 1..N : c[i] <= c[j] <=> i <= j
      /\ \A k \in 1..N : Cardinality({j \in S : j <= c[k]}) = k
  BY AscendingIs
<1>3. /\ \A k \in 1..(N + 1) : d[k] \in T
      /\ \A i, j \in 1..(N + 1) : d[i] <= d[j] <=> i <= j
      /\ \A x \in T : \E k \in 1..(N + 1) : d[k] = x
      /\ \A k \in 1..(N + 1) : \A x \in T : Cardinality({j \in T : j <= x}) = k => d[k] = x
  <2> HIDE DEF T
  <2> QED BY <1>1, AscendingIs
<1>4. \A x \in S : {j \in T : j <= x} = {j \in S : j <= x}
  OBVIOUS
<1>5. d[N + 1] = n
  <2>1. PICK k \in 1..(N + 1) : d[k] = n
    BY <1>3
  <2>2. \A i \in 1..(N + 1) : d[i] <= n
    <3> SUFFICES ASSUME NEW i \in 1..(N + 1) PROVE d[i] <= n
      OBVIOUS
    <3>1. d[i] \in S \/ d[i] = n
      BY <1>3
    <3> HIDE DEF d, T, N
    <3>2. \A x \in S : x \in Nat /\ x <= n
      OBVIOUS
    <3>3. CASE d[i] \in S
      BY <3>2, <3>3
    <3>4. CASE d[i] = n
      BY <3>4
    <3> QED BY <3>1, <3>3, <3>4
  <2>3. N + 1 \in 1..(N + 1)
    BY <1>1
  <2>4. N + 1 <= k
    <3> HIDE DEF T, d, N
    <3> QED BY <1>3, <2>1, <2>2, <2>3
  <2>5. k = N + 1
    BY <1>1, <2>4
  <2> QED BY <2>1, <2>5
<1>6. ASSUME NEW k \in 1..N PROVE d[k] = c[k]
  <2>1. c[k] \in S /\ Cardinality({j \in S : j <= c[k]}) = k
    BY <1>2
  <2>2. Cardinality({j \in T : j <= c[k]}) = k /\ c[k] \in T /\ k \in 1..(N + 1)
    <3> HIDE DEF c, N
    <3>1. {j \in T : j <= c[k]} = {j \in S : j <= c[k]}
      BY <1>4, <2>1
    <3> QED BY <1>1, <2>1, <3>1
  <2> HIDE DEF T, d, c
  <2> QED BY <1>3, <2>2
<1>7. AtPlaces(s, T) = [k \in 1..(N + 1) |-> s[d[k]]] /\ AtPlaces(s, S) = [k \in 1..N |-> s[c[k]]]
  BY <1>1 DEF AtPlaces
<1> HIDE DEF T, d, c, N
<1>8. Append(AtPlaces(s, S), s[n]) = [k \in 1..(N + 1) |-> IF k = N + 1 THEN s[n] ELSE s[c[k]]]
  BY <1>1, <1>7
<1>9. \A k \in 1..(N + 1) : s[d[k]] = IF k = N + 1 THEN s[n] ELSE s[c[k]]
  <2> SUFFICES ASSUME NEW k \in 1..(N + 1) PROVE s[d[k]] = IF k = N + 1 THEN s[n] ELSE s[c[k]]
    OBVIOUS
  <2>1. CASE k = N + 1
    BY <1>5, <2>1
  <2>2. CASE k # N + 1
    <3>1. k \in 1..N
      BY <1>1, <2>2
    <3> QED BY <1>6, <2>2, <3>1
  <2> QED BY <2>1, <2>2
<1>10. AtPlaces(s, T) = Append(AtPlaces(s, S), s[n])
  BY <1>7, <1>8, <1>9
<1> QED BY <1>10 DEF T

\* Only the elements at these places matter.
LEMMA SamePlaces ==
  ASSUME NEW S \in SUBSET Nat, IsFiniteSet(S), NEW s, NEW t, \A i \in S : s[i] = t[i]
  PROVE  AtPlaces(s, S) = AtPlaces(t, S)
<1> DEFINE N == Cardinality(S)
           c == Ascending(S)
<1>1. \A k \in 1..N : c[k] \in S
  BY AscendingIs
<1>2. AtPlaces(s, S) = [k \in 1..N |-> s[c[k]]] /\ AtPlaces(t, S) = [k \in 1..N |-> t[c[k]]]
  BY DEF AtPlaces
<1> HIDE DEF N, c
<1> QED BY <1>1, <1>2

-----------------------------------------------------------------------------
(* Splitting at a separator and joining again.                              *)

\* c holds the places of the separators, and one before and one after them.
CutAt(s, sep, ps, c) ==
    /\ Len(ps) \in Nat /\ Len(ps) >= 1 /\ ps = [k \in 1..Len(ps) |-> ps[k]]
    /\ \A k \in 1..(Len(ps) + 1) : c[k] \in 0..(Len(s) + 1)
    /\ c[1] = 0 /\ c[Len(ps) + 1] = Len(s) + 1
    /\ \A k \in 1..Len(ps) : c[k] < c[k + 1]
    /\ \A j, k \in 1..(Len(ps) + 1) : c[j] <= c[k] <=> j <= k
    /\ \A k \in 2..Len(ps) : c[k] \in 1..Len(s) /\ s[c[k]] = sep
    /\ \A i \in 1..Len(s) : s[i] = sep => \E k \in 2..Len(ps) : c[k] = i
    /\ \A k \in 1..Len(ps) : ps[k] = SubSeq(s, c[k] + 1, c[k + 1] - 1)

LEMMA SplitIs ==
  ASSUME NEW T, NEW s \in Seq(T), NEW sep
  PROVE  \E c : CutAt(s, sep, Split(s, sep), c)
<1> DEFINE S == {0, Len(s) + 1} \cup {i \in 1..Len(s) : s[i] = sep}
           c == Ascending(S)
           M == Cardinality(S)
           N == M - 1
           ps == Split(s, sep)
<1>1. Len(s) \in Nat
  OBVIOUS
<1>2. S \in SUBSET Nat /\ IsFiniteSet(S)
  <2>1. S \in SUBSET (0..(Len(s) + 1))
    BY <1>1
  <2>2. IsFiniteSet(0..(Len(s) + 1))
    BY <1>1, FS_Interval
  <2> DEFINE Z == 0..(Len(s) + 1)
  <2>3. Z \subseteq Nat
    BY <1>1
  <2> HIDE DEF S, Z
  <2>4. IsFiniteSet(S)
    BY <2>1, <2>2, FS_Subset DEF Z
  <2> QED BY <2>1, <2>3, <2>4 DEF Z
<1>3. /\ M \in Nat /\ Len(c) = M
      /\ \A k \in 1..M : c[k] \in S
      /\ \A i, j \in 1..M : c[i] <= c[j] <=> i <= j
      /\ \A x \in S : \E k \in 1..M : c[k] = x
  <2> HIDE DEF S
  <2> QED BY <1>2, AscendingIs
<1>4. /\ 0 \in S /\ Len(s) + 1 \in S
      /\ \A x \in S : x \in 0..(Len(s) + 1)
      /\ \A x \in S : x # 0 /\ x # Len(s) + 1 => x \in 1..Len(s) /\ s[x] = sep
      /\ \A i \in 1..Len(s) : s[i] = sep => i \in S
  BY <1>1
<1>5. ps = [k \in 1..(Len(c) - 1) |-> SubSeq(s, c[k] + 1, c[k + 1] - 1)]
  BY DEF Split
<1> HIDE DEF S, c, M, ps
<1>6. PICK a \in 1..M : c[a] = 0
  BY <1>3, <1>4
<1>7. PICK b \in 1..M : c[b] = Len(s) + 1
  BY <1>3, <1>4
<1>8. \A k \in 1..M : c[k] \in 0..(Len(s) + 1)
  BY <1>3, <1>4
<1>9. a = 1
  <2>1. 1 \in 1..M /\ c[a] <= c[1]
    BY <1>1, <1>3, <1>6, <1>8
  <2> QED BY <1>3, <2>1
<1>10. b = M
  <2>1. M \in 1..M /\ c[M] <= c[b]
    BY <1>1, <1>3, <1>7, <1>8
  <2> QED BY <1>3, <2>1
<1>11. N \in Nat /\ N >= 1
  <2>1. a # b
    BY <1>1, <1>6, <1>7
  <2> QED BY <1>3, <1>9, <1>10, <2>1
<1>12. Len(ps) = N /\ ps = [k \in 1..N |-> ps[k]] /\ \A k \in 1..N : ps[k] = SubSeq(s, c[k] + 1, c[k + 1] - 1)
  <2> DEFINE piece(k) == SubSeq(s, c[k] + 1, c[k + 1] - 1)
  <2>1. ps = [k \in 1..N |-> piece(k)]
    BY <1>3, <1>5
  <2> HIDE DEF piece, N
  <2>2. Len(ps) = N /\ ps = [k \in 1..N |-> ps[k]] /\ \A k \in 1..N : ps[k] = piece(k)
    BY <1>11, <2>1
  <2> QED BY <2>2 DEF piece
<1>13. \A k \in 1..N : c[k] < c[k + 1]
  <2> SUFFICES ASSUME NEW k \in 1..N PROVE c[k] < c[k + 1]
    OBVIOUS
  <2>1. k \in 1..M /\ k + 1 \in 1..M
    BY <1>3, <1>11
  <2>2. ~(c[k + 1] <= c[k])
    BY <1>3, <2>1
  <2>3. c[k] \in Nat /\ c[k + 1] \in Nat
    BY <1>8, <2>1
  <2> QED BY <2>2, <2>3
<1>14. ASSUME NEW k \in 2..N PROVE c[k] \in 1..Len(s) /\ s[c[k]] = sep
  <2>1. k \in 1..M /\ 1 \in 1..M /\ M \in 1..M
    BY <1>3, <1>11
  <2>2. ~(c[k] <= c[1]) /\ ~(c[M] <= c[k])
    BY <1>3, <2>1
  <2>3. c[k] # 0 /\ c[k] # Len(s) + 1
    BY <1>1, <1>6, <1>7, <1>9, <1>10, <2>2
  <2> QED BY <1>3, <1>4, <2>1, <2>3
<1>15. ASSUME NEW i \in 1..Len(s), s[i] = sep PROVE \E k \in 2..N : c[k] = i
  <2>1. PICK k \in 1..M : c[k] = i
    BY <1>3, <1>4, <1>15
  <2>2. k # a /\ k # b
    BY <1>1, <1>6, <1>7, <2>1
  <2>3. k \in 2..N
    BY <1>3, <1>9, <1>10, <2>2
  <2> QED BY <2>1, <2>3
<1>16. N + 1 = M
  BY <1>3
<1>18. \A j, k \in 1..(N + 1) : c[j] <= c[k] <=> j <= k
  BY <1>3, <1>16
<1> HIDE DEF N
<1>17. CutAt(s, sep, ps, c)
  BY <1>6, <1>7, <1>8, <1>9, <1>10, <1>11, <1>12, <1>13, <1>14, <1>15, <1>16, <1>18 DEF CutAt
<1> QED BY <1>17 DEF ps

LEMMA PrefixGrows ==
  ASSUME NEW T, NEW s \in Seq(T), NEW a \in 1..Len(s), NEW b \in (a + 1)..(Len(s) + 1)
  PROVE  SubSeq(s, 1, a - 1) \o (<<s[a]>> \o SubSeq(s, a + 1, b - 1)) = SubSeq(s, 1, b - 1)
<1>1. Len(s) \in Nat /\ a \in Nat /\ b \in Nat /\ a < b /\ b <= Len(s) + 1
  OBVIOUS
<1>2. b - 1 \in a..Len(s) /\ a - 1 \in (1 - 1)..Len(s) /\ b - 1 \in (a - 1)..Len(s)
      /\ 1 \in 1..(Len(s) + 1)
  BY <1>1
<1>3. <<s[a]>> \o SubSeq(s, a + 1, b - 1) = SubSeq(s, a, b - 1)
  BY <1>2, SubSeqRecursiveFirst
<1>4. SubSeq(s, 1, a - 1) \o SubSeq(s, (a - 1) + 1, b - 1) = SubSeq(s, 1, b - 1)
  BY <1>2, ConcatAdjacentSubSeq
<1>5. (a - 1) + 1 = a
  BY <1>1
<1> QED BY <1>3, <1>4, <1>5

LEMMA FunctionIsSeq ==
  ASSUME NEW V, NEW n \in Nat, NEW f \in [1..n -> V]
  PROVE  f \in Seq(V) /\ Len(f) = n
OBVIOUS

\* f[n] is the concatenation of the first n.
Flattening(ss, f) ==
    /\ FlattenSeq(ss) = f[Len(ss)]
    /\ f[1] = ss[1]
    /\ \A i \in 2..Len(ss) : f[i] = f[i - 1] \o ss[i]

LEMMA FlattenSteps ==
  ASSUME NEW S, NEW ss \in Seq(Seq(S)), Len(ss) # 0
  PROVE  \E f : Flattening(ss, f)
<1>1. PICK f : /\ FlattenSeq(ss) = f[Len(ss)] /\ f[1] = ss[1]
               /\ \A i \in 2..Len(ss) : f[i] = f[i - 1] \o ss[i]
  BY FlattenEquation
<1> QED BY <1>1 DEF Flattening

Between(ps, sep) == [k \in 1..Len(ps) |-> IF k = 1 THEN ps[k] ELSE <<sep>> \o ps[k]]

\* A text is its pieces with the separator between them.
LEMMA SplitJoined ==
  ASSUME NEW T, NEW s \in Seq(T), NEW sep \in T
  PROVE  /\ Len(Split(s, sep)) \in Nat /\ Len(Split(s, sep)) >= 1
         /\ Split(s, sep) \in Seq(Seq(T))
         /\ Between(Split(s, sep), sep) \in Seq(Seq(T))
         /\ FlattenSeq(Between(Split(s, sep), sep)) = s
<1> DEFINE ps == Split(s, sep)
           N == Len(ps)
           r == Between(ps, sep)
<1>0. r = [k \in 1..N |-> IF k = 1 THEN ps[k] ELSE <<sep>> \o ps[k]]
  BY DEF Between
<1> HIDE DEF r
<1>1. PICK c : CutAt(s, sep, ps, c)
  BY SplitIs
<1>2. /\ N \in Nat /\ N >= 1 /\ ps = [k \in 1..N |-> ps[k]]
      /\ \A k \in 1..(N + 1) : c[k] \in 0..(Len(s) + 1)
      /\ c[1] = 0 /\ c[N + 1] = Len(s) + 1
      /\ \A k \in 1..N : c[k] < c[k + 1]
      /\ \A k \in 2..N : c[k] \in 1..Len(s) /\ s[c[k]] = sep
      /\ \A k \in 1..N : ps[k] = SubSeq(s, c[k] + 1, c[k + 1] - 1)
  BY <1>1 DEF CutAt
<1> HIDE DEF N, ps
<1>3. Len(s) \in Nat
  OBVIOUS
<1>4. \A k \in 1..N : ps[k] \in Seq(T)
  <2> SUFFICES ASSUME NEW k \in 1..N PROVE ps[k] \in Seq(T)
    OBVIOUS
  <2>1. k \in 1..(N + 1) /\ k + 1 \in 1..(N + 1)
    BY <1>2
  <2>2. c[k] + 1 \in 1..(Len(s) + 2) /\ c[k + 1] - 1 \in -1..Len(s)
    <3>1. c[k] \in 0..(Len(s) + 1) /\ c[k + 1] \in 0..(Len(s) + 1)
      BY <1>2, <2>1
    <3>2. \A n \in Nat : \A x \in 0..(n + 1) : x + 1 \in 1..(n + 2) /\ x - 1 \in -1..n
      OBVIOUS
    <3> QED BY <1>3, <3>1, <3>2
  <2>3. \A i \in 1..(Len(s) + 2), j \in -1..Len(s) : SubSeq(s, i, j) \in Seq(T)
    <3> SUFFICES ASSUME NEW i \in 1..(Len(s) + 2), NEW j \in -1..Len(s)
                 PROVE  SubSeq(s, i, j) \in Seq(T)
      OBVIOUS
    <3>1. \A p \in i..j : s[p] \in T
      BY <1>3
    <3>2. i \in Int /\ j \in Int
      BY <1>3
    <3> QED BY <3>1, <3>2, SubSeqProperties
  <2> QED BY <1>2, <2>2, <2>3
<1>5. ps \in Seq(Seq(T))
  <2> DEFINE V == Seq(T)
  <2>1. \A k \in 1..N : ps[k] \in V
    BY <1>4
  <2> HIDE DEF V
  <2>2. ps \in [1..N -> V]
    BY <1>2, <2>1
  <2>3. ps \in Seq(V)
    BY <1>2, <2>2
  <2> QED BY <2>3 DEF V
<1>6. r \in Seq(Seq(T)) /\ Len(r) = N
  <2>1. ASSUME NEW k \in 1..N PROVE r[k] \in Seq(T)
    <3>1. <<sep>> \o ps[k] \in Seq(T)
      BY <1>4
    <3> QED BY <1>0, <1>4, <3>1
  <2>2. r = [k \in 1..N |-> r[k]]
    BY <1>0
  <2> DEFINE V == Seq(T)
  <2>3. \A k \in 1..N : r[k] \in V
    BY <2>1
  <2> HIDE DEF V
  <2>5. r \in [1..N -> V]
    BY <2>2, <2>3
  <2>4. r \in Seq(V) /\ Len(r) = N
    BY <1>2, <2>5, FunctionIsSeq
  <2> QED BY <2>4 DEF V
<1>7. PICK f : /\ FlattenSeq(r) = f[N] /\ f[1] = r[1]
               /\ \A i \in 2..N : f[i] = f[i - 1] \o r[i]
  <2>1. Len(r) # 0
    BY <1>2, <1>6
  <2>2. \E f : Flattening(r, f)
    BY <1>6, <2>1, FlattenSteps
  <2> QED BY <1>6, <2>2 DEF Flattening
<1> DEFINE P == {n \in Nat : n + 1 \in 1..N => f[n + 1] = SubSeq(s, 1, c[n + 2] - 1)}
<1>8. 0 \in P
  <2>1. 1 \in 1..N /\ r[1] = ps[1]
    BY <1>0, <1>2
  <2>2. ps[1] = SubSeq(s, 1, c[2] - 1)
    <3>1. ps[1] = SubSeq(s, c[1] + 1, c[1 + 1] - 1)
      BY <1>2, <2>1
    <3>2. c[1] + 1 = 1 /\ 1 + 1 = 2
      BY <1>2
    <3> QED BY <3>1, <3>2
  <2> QED BY <1>7, <2>1, <2>2
<1>9. ASSUME NEW n \in Nat, n \in P PROVE n + 1 \in P
  <2> SUFFICES ASSUME n + 2 \in 1..N PROVE f[n + 2] = SubSeq(s, 1, c[n + 3] - 1)
    OBVIOUS
  <2>1. n + 2 \in 2..N /\ n + 1 \in 1..N /\ n + 2 \in 1..N /\ n + 2 # 1 /\ (n + 2) - 1 = n + 1
        /\ (n + 2) + 1 = n + 3 /\ n + 3 \in 1..(N + 1)
    BY <1>2
  <2>2. f[n + 1] = SubSeq(s, 1, c[n + 2] - 1)
    BY <1>9, <2>1
  <2>3. f[n + 2] = f[n + 1] \o r[n + 2]
    BY <1>7, <2>1
  <2>4. r[n + 2] = <<sep>> \o ps[n + 2]
    BY <1>0, <2>1
  <2>5. ps[n + 2] = SubSeq(s, c[n + 2] + 1, c[n + 3] - 1)
    BY <1>2, <2>1
  <2>6. c[n + 2] \in 1..Len(s) /\ s[c[n + 2]] = sep
    BY <1>2, <2>1
  <2>7. c[n + 3] \in (c[n + 2] + 1)..(Len(s) + 1)
    <3>1. c[n + 2] < c[n + 3] /\ c[n + 3] \in 0..(Len(s) + 1)
      BY <1>2, <2>1
    <3> QED BY <1>3, <2>6, <3>1
  <2> HIDE DEF P
  <2>8. SubSeq(s, 1, c[n + 2] - 1) \o (<<sep>> \o SubSeq(s, c[n + 2] + 1, c[n + 3] - 1))
        = SubSeq(s, 1, c[n + 3] - 1)
    BY <2>6, <2>7, PrefixGrows
  <2> QED BY <2>2, <2>3, <2>4, <2>5, <2>8
<1>10. Nat \subseteq P
  <2> HIDE DEF P
  <2> QED BY <1>8, <1>9, SetInduction
<1>11. FlattenSeq(r) = s
  <2>1. N - 1 \in Nat /\ (N - 1) + 1 = N /\ (N - 1) + 2 = N + 1 /\ N \in 1..N
    BY <1>2
  <2>2. f[N] = SubSeq(s, 1, c[N + 1] - 1)
    BY <1>10, <2>1
  <2>3. c[N + 1] - 1 = Len(s)
    BY <1>2, <1>3
  <2>4. SubSeq(s, 1, Len(s)) = s
    BY <1>3
  <2> QED BY <1>7, <2>2, <2>3, <2>4
<1> QED BY <1>2, <1>5, <1>6, <1>11 DEF N, ps, r

-----------------------------------------------------------------------------
(* Repeated closing brackets.                                               *)

Ends(s) == s # <<>> /\ s[Len(s)] = "]"

LEMMA ForgiveMore ==
  ASSUME NEW T, NEW s \in Seq(T), NEW t \in T
  PROVE  /\ ForgiveBrackets(Append(s, t)) = IF Ends(s) /\ t = "]" THEN ForgiveBrackets(s)
                                            ELSE Append(ForgiveBrackets(s), t)
         /\ Ends(Append(s, t)) <=> t = "]"
<1> DEFINE u == Append(s, t)
           n == Len(s) + 1
           S == {i \in 1..Len(s) : ~(i > 1 /\ s[i] = "]" /\ s[i - 1] = "]")}
           U == {i \in 1..Len(u) : ~(i > 1 /\ u[i] = "]" /\ u[i - 1] = "]")}
<1>1. Len(s) \in Nat /\ n \in Nat
  OBVIOUS
<1>2. u \in Seq(T) /\ Len(u) = n /\ u[n] = t /\ \A i \in 1..Len(s) : u[i] = s[i]
  OBVIOUS
<1>3. S \in SUBSET Nat /\ IsFiniteSet(S) /\ S \subseteq 1..Len(s)
  <2>1. S \in SUBSET (1..Len(s))
    OBVIOUS
  <2>2. IsFiniteSet(1..Len(s)) /\ 1..Len(s) \subseteq Nat
    BY <1>1, FS_Interval
  <2> HIDE DEF S
  <2>3. IsFiniteSet(S)
    BY <2>1, <2>2, FS_Subset
  <2> QED BY <2>1, <2>2, <2>3
<1>4. ForgiveBrackets(s) = AtPlaces(s, S) /\ ForgiveBrackets(u) = AtPlaces(u, U)
  BY DEF ForgiveBrackets
<1>5. Ends(s) <=> n > 1 /\ s[n - 1] = "]"
  BY <1>1 DEF Ends
<1>6. Ends(u) <=> t = "]"
  <2>1. u # <<>>
    BY <1>1, <1>2
  <2> HIDE DEF u, n
  <2> QED BY <1>2, <2>1 DEF Ends
<1>7. \A i \in 1..Len(s) : i \in U <=> i \in S
  <2> SUFFICES ASSUME NEW i \in 1..Len(s) PROVE i \in U <=> i \in S
    OBVIOUS
  <2>1. i \in 1..Len(u) /\ u[i] = s[i] /\ (i > 1 => u[i - 1] = s[i - 1])
    <3> HIDE DEF u
    <3> QED BY <1>1, <1>2
  <2> HIDE DEF u, n
  <2> QED BY <2>1
<1>8. n \in U <=> ~(Ends(s) /\ t = "]")
  <2>1. n > 1 => u[n - 1] = s[n - 1]
    <3>1. n > 1 => n - 1 \in 1..Len(s)
      BY <1>1
    <3> HIDE DEF u, n
    <3> QED BY <1>2, <3>1
  <2>2. n \in 1..n
    BY <1>1
  <2> HIDE DEF u, n
  <2> QED BY <1>2, <1>5, <2>1, <2>2
<1>9. \A i \in U : i \in 1..Len(s) \/ i = n
  <2>1. \A i \in 1..n : i \in 1..Len(s) \/ i = n
    BY <1>1
  <2>2. U \subseteq 1..n
    <3> HIDE DEF n, u
    <3> QED BY <1>2
  <2> HIDE DEF n, U
  <2> QED BY <2>1, <2>2
<1>10. AtPlaces(u, S) = AtPlaces(s, S)
  <2>1. \A i \in S : u[i] = s[i]
    BY <1>2, <1>3
  <2> HIDE DEF S, u
  <2> QED BY <1>3, <2>1, SamePlaces
<1>11. CASE Ends(s) /\ t = "]"
  <2>1. U = S
    <3> HIDE DEF U, S, n
    <3> QED BY <1>3, <1>7, <1>8, <1>9, <1>11
  <2> HIDE DEF U, S, u
  <2> QED BY <1>4, <1>6, <1>10, <1>11, <2>1 DEF u
<1>12. CASE ~(Ends(s) /\ t = "]")
  <2>1. U = S \cup {n}
    <3> HIDE DEF U, S, n
    <3> QED BY <1>3, <1>7, <1>8, <1>9, <1>12
  <2>2. \A i \in S : i < n
    BY <1>1, <1>3
  <2> HIDE DEF U, S, u, n
  <2>3. AtPlaces(u, S \cup {n}) = Append(AtPlaces(u, S), u[n])
    BY <1>1, <1>3, <2>2, OneMorePlace
  <2> QED BY <1>2, <1>4, <1>6, <1>10, <1>12, <2>1, <2>3 DEF u
<1> QED BY <1>11, <1>12

\* Two texts that say the same, and of which both or none ends in a bracket.
Alike(s, t) == ForgiveBrackets(s) = ForgiveBrackets(t) /\ (Ends(s) <=> Ends(t))

LEMMA AlikeMore ==
  ASSUME NEW T, NEW s \in Seq(T), NEW t \in Seq(T), NEW y \in T, Alike(s, t)
  PROVE  Alike(Append(s, y), Append(t, y))
<1>1. /\ ForgiveBrackets(Append(s, y)) = IF Ends(s) /\ y = "]" THEN ForgiveBrackets(s)
                                            ELSE Append(ForgiveBrackets(s), y)
      /\ Ends(Append(s, y)) <=> y = "]"
  BY ForgiveMore
<1>2. /\ ForgiveBrackets(Append(t, y)) = IF Ends(t) /\ y = "]" THEN ForgiveBrackets(t)
                                            ELSE Append(ForgiveBrackets(t), y)
      /\ Ends(Append(t, y)) <=> y = "]"
  BY ForgiveMore
<1> QED BY <1>1, <1>2 DEF Alike

\* What follows does not tell them apart.
LEMMA AlikeOn ==
  ASSUME NEW T, NEW s \in Seq(T), NEW t \in Seq(T), NEW y \in Seq(T), Alike(s, t)
  PROVE  Alike(s \o y, t \o y)
<1> DEFINE P == {n \in Nat : n <= Len(y) =>
                      Alike(s \o SubSeq(y, 1, n), t \o SubSeq(y, 1, n))}
<1>0. Len(y) \in Nat
  OBVIOUS
<1>1. 0 \in P
  <2>1. SubSeq(y, 1, 0) = <<>> /\ s \o <<>> = s /\ t \o <<>> = t
    OBVIOUS
  <2> QED BY <2>1
<1>2. ASSUME NEW n \in Nat, n \in P PROVE n + 1 \in P
  <2> SUFFICES ASSUME n + 1 <= Len(y)
               PROVE  Alike(s \o SubSeq(y, 1, n + 1), t \o SubSeq(y, 1, n + 1))
    OBVIOUS
  <2>1. Alike(s \o SubSeq(y, 1, n), t \o SubSeq(y, 1, n))
    BY <1>0, <1>2
  <2> HIDE DEF P
  <2> DEFINE h == SubSeq(y, 1, n)
             e == y[n + 1]
  <2>2. h \in Seq(T) /\ e \in T
    BY <1>0, SubSeqProperties
  <2>3. SubSeq(y, 1, n + 1) = h \o <<e>>
    <3>1. n + 1 \in 1..Len(y) /\ 1 \in 1..Len(y) /\ n + 1 \in 1..Len(y) /\ (n + 1) - 1 = n
      BY <1>0
    <3>2. SubSeq(y, 1, n + 1) = SubSeq(y, 1, (n + 1) - 1) \o <<y[n + 1]>>
      BY <3>1, SubSeqRecursiveSecond
    <3> QED BY <3>1, <3>2
  <2> HIDE DEF h, e
  <2>4. \A q \in Seq(T) : q \o (h \o <<e>>) = Append(q \o h, e) /\ q \o h \in Seq(T)
    <3> SUFFICES ASSUME NEW q \in Seq(T)
                 PROVE  q \o (h \o <<e>>) = Append(q \o h, e) /\ q \o h \in Seq(T)
      OBVIOUS
    <3>1. <<e>> \in Seq(T) /\ q \o h \in Seq(T)
      BY <2>2
    <3>2. (q \o h) \o <<e>> = q \o (h \o <<e>>)
      <4>1. \A x \in Seq(T) : (q \o h) \o x = q \o (h \o x)
        BY <2>2, SMTT(40)
      <4> QED BY <3>1, <4>1
    <3>3. Append(q \o h, e) = (q \o h) \o <<e>>
      BY <2>2, <3>1, AppendIsConcat
    <3> QED BY <3>1, <3>2, <3>3
  <2>5. Alike(Append(s \o h, e), Append(t \o h, e))
    BY <2>1, <2>2, <2>4, AlikeMore DEF h
  <2> QED BY <2>3, <2>4, <2>5
<1>3. Nat \subseteq P
  <2> HIDE DEF P
  <2> QED BY <1>1, <1>2, SetInduction
<1>4. Len(y) \in P
  BY <1>0, <1>3
<1>5. SubSeq(y, 1, Len(y)) = y
  BY SubSeqFull
<1>6. Alike(s \o SubSeq(y, 1, Len(y)), t \o SubSeq(y, 1, Len(y)))
  <2>1. Len(y) <= Len(y)
    BY <1>0
  <2> QED BY <1>4, <2>1
<1> QED BY <1>5, <1>6

\* ... whatever comes before.
Same(T, s, t) == \A x \in Seq(T) : Alike(x \o s, x \o t)

LEMMA SameItself == ASSUME NEW T, NEW s \in Seq(T) PROVE Same(T, s, s)
BY DEF Same, Alike

LEMMA SameThrough ==
  ASSUME NEW T, NEW s, NEW t, NEW u, Same(T, s, t), Same(T, t, u)
  PROVE  Same(T, s, u)
BY DEF Same, Alike

LEMMA SameJoined ==
  ASSUME NEW T, NEW s \in Seq(T), NEW t \in Seq(T), NEW p \in Seq(T), NEW q \in Seq(T),
         Same(T, s, t), Same(T, p, q)
  PROVE  Same(T, s \o p, t \o q)
<1> SUFFICES ASSUME NEW x \in Seq(T) PROVE Alike(x \o (s \o p), x \o (t \o q))
  BY DEF Same
<1>1. x \o s \in Seq(T) /\ x \o t \in Seq(T)
  OBVIOUS
<1>2. Alike((x \o s) \o p, (x \o t) \o p)
  <2>1. Alike(x \o s, x \o t)
    BY DEF Same
  <2> QED BY <1>1, <2>1, AlikeOn
<1>3. Alike((x \o t) \o p, (x \o t) \o q)
  BY <1>1 DEF Same
<1>4. (x \o s) \o p = x \o (s \o p) /\ (x \o t) \o q = x \o (t \o q)
  <2>1. (x \o s) \o p = x \o (s \o p)
    OBVIOUS
  <2>2. (x \o t) \o q = x \o (t \o q)
    OBVIOUS
  <2> QED BY <2>1, <2>2
<1> QED BY <1>2, <1>3, <1>4 DEF Alike

\* One bracket is as good as two.
LEMMA BracketTwice ==
  ASSUME NEW T, NEW s \in Seq(T), "]" \in T, Ends(s)
  PROVE  Same(T, s \o <<"]">>, s)
<1> SUFFICES ASSUME NEW x \in Seq(T) PROVE Alike(x \o (s \o <<"]">>), x \o s)
  BY DEF Same
<1> DEFINE u == x \o s
<1>1. u \in Seq(T) /\ <<"]">> \in Seq(T)
  OBVIOUS
<1>2. Ends(u)
  <2>1. Len(s) \in Nat /\ Len(s) # 0 /\ Len(x) \in Nat /\ s[Len(s)] = "]"
    BY DEF Ends
  <2>2. Len(u) = Len(x) + Len(s) /\ u[Len(x) + Len(s)] = s[Len(s)]
    BY <2>1
  <2>3. u # <<>>
    BY <1>1, <2>1, <2>2
  <2> HIDE DEF u
  <2> QED BY <2>1, <2>2, <2>3 DEF Ends
<1>3. x \o (s \o <<"]">>) = Append(u, "]")
  <2>1. (x \o s) \o <<"]">> = x \o (s \o <<"]">>)
    BY <1>1, ConcatAssociative
  <2>2. Append(u, "]") = u \o <<"]">>
    BY <1>1, AppendIsConcat
  <2> QED BY <2>1, <2>2
<1> HIDE DEF u
<1>4. Alike(Append(u, "]"), u)
  BY <1>1, <1>2, ForgiveMore DEF Alike
<1> QED BY <1>3, <1>4 DEF u

\* What is put together from the same is the same.
LEMMA SameFlattened ==
  ASSUME NEW T, NEW ss \in Seq(Seq(T)), NEW tt \in Seq(Seq(T)), Len(ss) = Len(tt),
         \A i \in 1..Len(ss) : Same(T, ss[i], tt[i])
  PROVE  Same(T, FlattenSeq(ss), FlattenSeq(tt))
<1>0. Len(ss) \in Nat
  OBVIOUS
<1>1. CASE Len(ss) = 0
  <2>1. ss = tt
    <3> DEFINE V == Seq(T)
    <3>1. ss \in Seq(V) /\ tt \in Seq(V)
      OBVIOUS
    <3> HIDE DEF V
    <3>2. \A i \in 1..Len(ss) : ss[i] = tt[i]
      BY <1>1
    <3> QED BY <3>1, <3>2, SeqEqual
  <2>2. FlattenSeq(ss) \in Seq(T)
    BY Flattened
  <2> QED BY <2>1, <2>2, SameItself
<1>2. CASE Len(ss) # 0
  <2> DEFINE N == Len(ss)
  <2>1. PICK f : Flattening(ss, f)
    BY <1>2, FlattenSteps
  <2>2. PICK g : Flattening(tt, g)
    BY <1>2, FlattenSteps
  <2>3. \A i \in 1..N : ss[i] \in Seq(T) /\ tt[i] \in Seq(T)
    OBVIOUS
  <2> DEFINE P == {n \in Nat : n + 1 <= N =>
                        /\ f[n + 1] \in Seq(T) /\ g[n + 1] \in Seq(T)
                        /\ Same(T, f[n + 1], g[n + 1])}
  <2>4. 0 \in P
    <3>1. 1 \in 1..N
      BY <1>0, <1>2
    <3>2. f[1] = ss[1] /\ g[1] = tt[1]
      BY <2>1, <2>2 DEF Flattening
    <3> QED BY <2>3, <3>1, <3>2
  <2>5. ASSUME NEW n \in Nat, n \in P PROVE n + 1 \in P
    <3> SUFFICES ASSUME n + 2 <= N
                 PROVE  /\ f[n + 2] \in Seq(T) /\ g[n + 2] \in Seq(T)
                        /\ Same(T, f[n + 2], g[n + 2])
      OBVIOUS
    <3>1. n + 2 \in 2..N /\ n + 2 \in 1..N /\ (n + 2) - 1 = n + 1 /\ n + 1 <= N
      BY <1>0
    <3>2. f[n + 2] = f[n + 1] \o ss[n + 2] /\ g[n + 2] = g[n + 1] \o tt[n + 2]
      <4>1. \A i \in 2..N : f[i] = f[i - 1] \o ss[i] /\ g[i] = g[i - 1] \o tt[i]
        BY <2>1, <2>2 DEF Flattening
      <4> HIDE DEF N
      <4> QED BY <3>1, <4>1
    <3>3. f[n + 1] \in Seq(T) /\ g[n + 1] \in Seq(T) /\ Same(T, f[n + 1], g[n + 1])
      BY <2>5, <3>1
    <3>4. ss[n + 2] \in Seq(T) /\ tt[n + 2] \in Seq(T) /\ Same(T, ss[n + 2], tt[n + 2])
      BY <2>3, <3>1
    <3> HIDE DEF P, N
    <3>5. f[n + 1] \o ss[n + 2] \in Seq(T) /\ g[n + 1] \o tt[n + 2] \in Seq(T)
      BY <3>3, <3>4
    <3>6. Same(T, f[n + 1] \o ss[n + 2], g[n + 1] \o tt[n + 2])
      BY <3>3, <3>4, SameJoined
    <3> QED BY <3>2, <3>5, <3>6
  <2>6. Nat \subseteq P
    <3> HIDE DEF P
    <3> QED BY <2>4, <2>5, SetInduction
  <2>7. N - 1 \in P /\ (N - 1) + 1 = N
    <3>1. N - 1 \in Nat /\ (N - 1) + 1 = N
      BY <1>0, <1>2
    <3> HIDE DEF P, N
    <3> QED BY <2>6, <3>1
  <2>8. Same(T, f[N], g[N])
    <3> HIDE DEF N
    <3>1. N <= N
      BY <1>0 DEF N
    <3> QED BY <2>7, <3>1
  <2> QED BY <2>1, <2>2, <2>8 DEF Flattening
<1> QED BY <1>1, <1>2

LEMMA SameBack ==
  ASSUME NEW T, NEW s, NEW t, Same(T, s, t)
  PROVE  Same(T, t, s)
BY DEF Same, Alike

-----------------------------------------------------------------------------
(* Slices and slabs.                                                        *)

\* One more piece comes at the end.
LEMMA FlattenMore ==
  ASSUME NEW T, NEW ss \in Seq(Seq(T)), NEW x \in Seq(T)
  PROVE  FlattenSeq(Append(ss, x)) = FlattenSeq(ss) \o x
<1> DEFINE V == Seq(T)
           uu == Append(ss, x)
           N == Len(ss)
<1>0. N \in Nat
  OBVIOUS
<1>1. uu \in Seq(V) /\ Len(uu) = N + 1 /\ uu[N + 1] = x /\ \A i \in 1..N : uu[i] = ss[i]
  <2>1. ss \in Seq(V) /\ x \in V
    OBVIOUS
  <2> HIDE DEF V
  <2> QED BY <2>1
<1>2. \A i \in 1..N : ss[i] \in Seq(T)
  OBVIOUS
<1>3. PICK g : Flattening(uu, g)
  <2>1. uu \in Seq(Seq(T)) /\ Len(uu) # 0
    BY <1>0, <1>1
  <2> HIDE DEF uu
  <2> QED BY <2>1, FlattenSteps
<1>4. /\ FlattenSeq(uu) = g[N + 1]
      /\ g[1] = uu[1]
      /\ \A i \in 2..(N + 1) : g[i] = g[i - 1] \o uu[i]
  <2> HIDE DEF uu, N
  <2> QED BY <1>1, <1>3 DEF Flattening
<1>5. CASE N = 0
  <2>1. FlattenSeq(ss) = <<>>
    BY <1>5 DEF FlattenSeq
  <2>2. FlattenSeq(uu) = x
    <3> HIDE DEF uu
    <3> QED BY <1>1, <1>4, <1>5
  <2>3. <<>> \o x = x
    OBVIOUS
  <2> QED BY <2>1, <2>2, <2>3
<1>6. CASE N # 0
  <2>1. PICK f : Flattening(ss, f)
    BY <1>6, FlattenSteps
  <2>2. FlattenSeq(ss) = f[N] /\ f[1] = ss[1] /\ \A i \in 2..N : f[i] = f[i - 1] \o ss[i]
    BY <2>1 DEF Flattening
  <2> HIDE DEF uu, N
  <2> DEFINE P == {n \in Nat : n + 1 <= N => f[n + 1] = g[n + 1]}
  <2>3. 0 \in P
    <3>1. 1 \in 1..N
      BY <1>0, <1>6
    <3> QED BY <1>1, <1>4, <2>2, <3>1
  <2>4. ASSUME NEW n \in Nat, n \in P PROVE n + 1 \in P
    <3> SUFFICES ASSUME n + 2 <= N PROVE f[n + 2] = g[n + 2]
      OBVIOUS
    <3>1. n + 2 \in 2..N /\ n + 2 \in 2..(N + 1) /\ n + 2 \in 1..N /\ (n + 2) - 1 = n + 1
          /\ n + 1 <= N
      BY <1>0
    <3>2. f[n + 2] = f[n + 1] \o ss[n + 2]
      BY <2>2, <3>1
    <3>3. g[n + 2] = g[n + 1] \o uu[n + 2]
      BY <1>4, <3>1
    <3>4. f[n + 1] = g[n + 1]
      BY <2>4, <3>1
    <3>5. uu[n + 2] = ss[n + 2]
      BY <1>1, <3>1
    <3> QED BY <3>2, <3>3, <3>4, <3>5
  <2>5. Nat \subseteq P
    <3> HIDE DEF P
    <3> QED BY <2>3, <2>4, SetInduction
  <2>6. f[N] = g[N]
    <3>1. N - 1 \in Nat /\ (N - 1) + 1 = N /\ N <= N
      BY <1>0, <1>6
    <3>2. N - 1 \in P
      BY <2>5, <3>1
    <3> QED BY <3>1, <3>2
  <2>7. g[N + 1] = g[N] \o x
    <3>1. N + 1 \in 2..(N + 1) /\ (N + 1) - 1 = N
      BY <1>0, <1>6
    <3> QED BY <1>1, <1>4, <3>1
  <2> QED BY <1>4, <2>2, <2>6, <2>7 DEF uu
<1> QED BY <1>5, <1>6

\* A slice has one to three numbers.
LEMMA SliceLength ==
  ASSUME NEW s \in Seq(Tokens), IsSlice(s)
  PROVE  Len(SliceOf(s)) \in 1..3
<1> DEFINE ps == Split(s, ":")
           e(k) == Value[ps[k][1]]
<1>1. PICK c : CutAt(s, ":", ps, c)
  BY SplitIs
<1>2. Len(ps) \in Nat /\ Len(ps) >= 1
  BY <1>1 DEF CutAt
<1>3. Len(ps) <= 3
  BY DEF IsSlice
<1>4. SliceOf(s) = [k \in 1..Len(ps) |-> e(k)]
  BY DEF SliceOf
<1> DEFINE N == Len(ps)
<1> HIDE DEF ps, e
<1>5. N \in Nat /\ N >= 1 /\ N <= 3
  BY <1>2, <1>3
<1>6. SliceOf(s) = [k \in 1..N |-> e(k)]
  BY <1>4
<1> HIDE DEF N
<1>7. Len([k \in 1..N |-> e(k)]) = N
  BY <1>5
<1> QED BY <1>5, <1>6, <1>7

\* The numerals of the queries can be told from their numbers: a number is not
\* written with leading zeros in one place and without in another.
OneNumeral == \A t, u \in Numerals : Value[t] = Value[u] => t = u

LEMMA OneByOne ==
  ASSUME NEW a, NEW b
  PROVE  <<a>> \o <<b>> = <<a, b>>
<1> DEFINE T == {a, b}
           x == <<a>>
           y == <<b>>
           z == <<a, b>>
<1>1. x \in Seq(T) /\ Len(x) = 1 /\ x[1] = a
  OBVIOUS
<1>2. y \in Seq(T) /\ Len(y) = 1 /\ y[1] = b
  OBVIOUS
<1>3. z \in Seq(T) /\ Len(z) = 2 /\ z[1] = a /\ z[2] = b
  OBVIOUS
<1> HIDE DEF T, x, y, z
<1>4. x \o y \in Seq(T) /\ Len(x \o y) = 2 /\ (x \o y)[1] = a /\ (x \o y)[2] = b
  <2>1. /\ x \o y \in Seq(T)
        /\ Len(x \o y) = Len(x) + Len(y)
        /\ \A i \in 1..(Len(x) + Len(y)) :
              (x \o y)[i] = IF i <= Len(x) THEN x[i] ELSE y[i - Len(x)]
    BY <1>1, <1>2, ConcatProperties
  <2>2. 1 \in 1..(Len(x) + Len(y)) /\ 2 \in 1..(Len(x) + Len(y)) /\ 2 - Len(x) = 1
    BY <1>1, <1>2
  <2>3. (x \o y)[1] = x[1]
    BY <1>1, <2>1, <2>2
  <2>4. (x \o y)[2] = y[1]
    BY <1>1, <2>1, <2>2
  <2> QED BY <1>1, <1>2, <2>1, <2>3, <2>4
<1>5. x \o y = z
  <2>1. \A i \in 1..2 : i = 1 \/ i = 2
    OBVIOUS
  <2>2. \A i \in 1..Len(x \o y) : (x \o y)[i] = z[i]
    BY <1>3, <1>4, <2>1
  <2> QED BY <1>3, <1>4, <2>2, SeqEqual
<1> QED BY <1>5 DEF x, y, z

\* A slice is written as it was.
LEMMA SliceWritten ==
  ASSUME OneNumeral, NEW s \in Seq(Tokens), IsSlice(s)
  PROVE  RenderSlice(SliceOf(s)) = (<<"[">> \o s) \o <<"]">>
<1> DEFINE ps == Split(s, ":")
           N == Len(ps)
           slice == SliceOf(s)
           w(k) == IF k = 1 THEN <<Numeral(slice[k])>> ELSE <<":", Numeral(slice[k])>>
           p(k) == IF k = 1 THEN ps[k] ELSE <<":">> \o ps[k]
           r == [k \in 1..N |-> p(k)]
<1>1. ":" \in Tokens
  BY DEF Tokens, Separators
<1>2. N \in Nat /\ FlattenSeq(r) = s
  <2>1. r = Between(ps, ":")
    BY DEF Between
  <2> HIDE DEF r
  <2> QED BY <1>1, <2>1, SplitJoined
<1>3. \A k \in 1..N : Len(ps[k]) = 1 /\ ps[k][1] \in Numerals /\ ps[k] \in Seq(Tokens)
  <2>1. ps \in Seq(Seq(Tokens)) /\ DOMAIN ps = 1..N
    <3>1. ps \in Seq(Seq(Tokens))
      BY <1>1, SplitJoined
    <3> HIDE DEF ps
    <3> QED BY <3>1
  <2>2. \A h \in ToSet(ps) : Len(h) = 1 /\ h[1] \in Numerals
    BY DEF IsSlice
  <2> HIDE DEF ps, N
  <2>3. \A k \in 1..N : ps[k] \in ToSet(ps)
    BY <2>1 DEF ToSet
  <2>4. \A k \in 1..N : ps[k] \in Seq(Tokens)
    <3> DEFINE V == Seq(Tokens)
    <3>1. ps \in Seq(V)
      BY <2>1
    <3> HIDE DEF V
    <3>2. \A k \in 1..N : ps[k] \in V
      BY <3>1, ElementOfSeq DEF N
    <3> QED BY <3>2 DEF V
  <2> QED BY <2>2, <2>3, <2>4
<1>4. Len(slice) = N /\ \A k \in 1..N : slice[k] = Value[ps[k][1]]
  <2> DEFINE e(k) == Value[ps[k][1]]
  <2>1. slice = [k \in 1..N |-> e(k)]
    BY DEF SliceOf
  <2> HIDE DEF slice, e, N
  <2>2. Len(slice) = N /\ \A k \in 1..N : slice[k] = e(k)
    BY <1>2, <2>1
  <2> QED BY <2>2 DEF e
<1> HIDE DEF ps, N, slice
<1>5. \A k \in 1..N : Numeral(slice[k]) = ps[k][1]
  <2> SUFFICES ASSUME NEW k \in 1..N PROVE Numeral(slice[k]) = ps[k][1]
    OBVIOUS
  <2>1. \E t \in Numerals : Value[t] = slice[k]
    BY <1>3, <1>4
  <2>2. Numeral(slice[k]) \in Numerals /\ Value[Numeral(slice[k])] = slice[k]
    BY <2>1 DEF Numeral
  <2> QED BY <1>3, <1>4, <2>2 DEF OneNumeral
<1>6. \A k \in 1..N : w(k) = r[k]
  <2> SUFFICES ASSUME NEW k \in 1..N PROVE w(k) = r[k]
    OBVIOUS
  <2> DEFINE h == ps[k]
  <2>1. h \in Seq(Tokens) /\ Len(h) = 1 /\ Numeral(slice[k]) = h[1]
    BY <1>3, <1>5
  <2>2. r[k] = IF k = 1 THEN h ELSE <<":">> \o h
    <3>1. r[k] = p(k)
      <4> HIDE DEF p
      <4> QED OBVIOUS
    <3> HIDE DEF r
    <3> QED BY <3>1
  <2> HIDE DEF h, r
  <2>3. h = <<h[1]>>
    BY <2>1
  <2>4. <<":">> \o <<h[1]>> = <<":", h[1]>>
    BY OneByOne
  <2> QED BY <2>1, <2>2, <2>3, <2>4
<1>7. [k \in 1..N |-> w(k)] = r
  <2>1. r = [k \in 1..N |-> r[k]]
    OBVIOUS
  <2> HIDE DEF w, r
  <2> QED BY <1>6, <2>1
<1>8. RenderSlice(slice) = <<"[">> \o FlattenSeq([k \in 1..N |-> w(k)]) \o <<"]">>
  BY <1>4 DEF RenderSlice
<1> HIDE DEF w, r
<1> QED BY <1>2, <1>7, <1>8 DEF slice

\* The pieces that are not empty, among the first n.
Kept(ps, n) == AtPlaces(ps, {k \in 1..n : ps[k] # <<>>})

LEMMA KeptMore ==
  ASSUME NEW ps, NEW n \in Nat
  PROVE  Kept(ps, n + 1) = IF ps[n + 1] = <<>> THEN Kept(ps, n) ELSE Append(Kept(ps, n), ps[n + 1])
<1> DEFINE S == {k \in 1..n : ps[k] # <<>>}
           U == {k \in 1..(n + 1) : ps[k] # <<>>}
<1>1. S \in SUBSET Nat /\ IsFiniteSet(S)
  <2>1. S \in SUBSET (1..n)
    OBVIOUS
  <2>2. IsFiniteSet(1..n) /\ 1..n \subseteq Nat
    BY FS_Interval
  <2> HIDE DEF S
  <2>3. IsFiniteSet(S)
    BY <2>1, <2>2, FS_Subset
  <2> QED BY <2>1, <2>2, <2>3
<1>2. \A k \in 1..(n + 1) : k \in 1..n \/ k = n + 1
  OBVIOUS
<1>3. n + 1 \in 1..(n + 1) /\ 1..n \subseteq 1..(n + 1)
  OBVIOUS
<1>4. CASE ps[n + 1] = <<>>
  <2>1. U = S
    BY <1>2, <1>3, <1>4
  <2> HIDE DEF U, S
  <2> QED BY <1>4, <2>1 DEF Kept, U, S
<1>5. CASE ps[n + 1] # <<>>
  <2>1. U = S \cup {n + 1}
    BY <1>2, <1>3, <1>5
  <2>2. \A k \in S : k < n + 1
    OBVIOUS
  <2>3. n + 1 \in Nat
    OBVIOUS
  <2> HIDE DEF U, S
  <2>4. AtPlaces(ps, S \cup {n + 1}) = Append(AtPlaces(ps, S), ps[n + 1])
    BY <1>1, <2>2, <2>3, OneMorePlace
  <2> QED BY <1>5, <2>1, <2>4 DEF Kept, U, S
<1> QED BY <1>4, <1>5

LEMMA KeptNone ==
  ASSUME NEW ps
  PROVE  Kept(ps, 0) = <<>>
<1> DEFINE S == {k \in 1..0 : ps[k] # <<>>}
<1>1. S = {}
  OBVIOUS
<1> HIDE DEF S
<1>2. Cardinality(S) = 0
  BY <1>1, FS_EmptySet
<1>3. AtPlaces(ps, S) = <<>>
  BY <1>2 DEF AtPlaces
<1> QED BY <1>3 DEF Kept, S

LEMMA KeptIs ==
  ASSUME NEW V, NEW ps \in Seq(V), NEW n \in 0..Len(ps)
  PROVE  /\ Kept(ps, n) \in Seq(V)
         /\ \A d \in 1..Len(Kept(ps, n)) : \E k \in 1..Len(ps) : ps[k] # <<>> /\ Kept(ps, n)[d] = ps[k]
<1> DEFINE S == {k \in 1..n : ps[k] # <<>>}
           M == Cardinality(S)
           at == Ascending(S)
           q == Kept(ps, n)
<1>1. S \in SUBSET Nat /\ IsFiniteSet(S)
  <2>1. S \in SUBSET (1..n)
    OBVIOUS
  <2>2. IsFiniteSet(1..n) /\ 1..n \subseteq Nat
    BY FS_Interval
  <2> HIDE DEF S
  <2>3. IsFiniteSet(S)
    BY <2>1, <2>2, FS_Subset
  <2> QED BY <2>1, <2>2, <2>3
<1>2. M \in Nat /\ \A d \in 1..M : at[d] \in S
  <2> HIDE DEF S
  <2> QED BY <1>1, AscendingIs
<1>3. q = [d \in 1..M |-> ps[at[d]]]
  BY DEF Kept, AtPlaces
<1>4. \A d \in 1..M : at[d] \in 1..Len(ps) /\ ps[at[d]] # <<>>
  <2> SUFFICES ASSUME NEW d \in 1..M PROVE at[d] \in 1..Len(ps) /\ ps[at[d]] # <<>>
    OBVIOUS
  <2>1. at[d] \in 1..n /\ ps[at[d]] # <<>>
    BY <1>2
  <2>2. n \in Nat /\ Len(ps) \in Nat /\ n <= Len(ps)
    OBVIOUS
  <2> HIDE DEF at
  <2> QED BY <2>1, <2>2
<1> HIDE DEF M, at, q
<1>5. q \in [1..M -> V] /\ \A d \in 1..M : q[d] = ps[at[d]]
  BY <1>3, <1>4
<1>6. q \in Seq(V) /\ Len(q) = M
  BY <1>2, <1>5, FunctionIsSeq
<1>7. \A d \in 1..Len(q) : \E k \in 1..Len(ps) : ps[k] # <<>> /\ q[d] = ps[k]
  BY <1>4, <1>5, <1>6
<1> QED BY <1>6, <1>7 DEF q

\* The pieces with the bracket that closed each.
Closed(q) == [d \in 1..Len(q) |-> q[d] \o <<"]">>]

LEMMA ClosedMore ==
  ASSUME NEW q \in Seq(Seq(Tokens)), NEW p \in Seq(Tokens)
  PROVE  /\ Closed(q) \in Seq(Seq(Tokens)) /\ Len(Closed(q)) = Len(q)
         /\ FlattenSeq(Closed(Append(q, p))) = FlattenSeq(Closed(q)) \o (p \o <<"]">>)
<1> DEFINE V == Seq(Tokens)
           closed(x) == x \o <<"]">>
           u == Append(q, p)
<1>1. "]" \in Tokens
  BY DEF Tokens, Separators
<1>2. \A x \in V : closed(x) \in V
  BY <1>1
<1>3. q \in Seq(V) /\ p \in V
  OBVIOUS
<1>4. \A x : Closed(x) = [d \in 1..Len(x) |-> closed(x[d])]
  BY DEF Closed
<1> HIDE DEF V, closed
<1>5. Len(q) \in Nat /\ \A d \in 1..Len(q) : closed(q[d]) \in V
  BY <1>2, <1>3
<1>6. Closed(q) \in [1..Len(q) -> V]
  BY <1>4, <1>5
<1>7. Closed(q) \in Seq(V) /\ Len(Closed(q)) = Len(q)
  BY <1>5, <1>6, FunctionIsSeq
<1>8. Len(u) = Len(q) + 1 /\ u[Len(q) + 1] = p /\ \A d \in 1..Len(q) : u[d] = q[d]
  BY <1>3
<1> HIDE DEF u
<1>9. Closed(u) = Append(Closed(q), closed(p))
  <2>1. Append(Closed(q), closed(p)) =
          [d \in 1..(Len(q) + 1) |-> IF d = Len(q) + 1 THEN closed(p) ELSE Closed(q)[d]]
    <3> DEFINE cq == Closed(q)
               m == Len(q)
    <3>1. cq \in [1..m -> V] /\ m \in Nat
      BY <1>5, <1>6
    <3> HIDE DEF cq, m
    <3>2. cq \in Seq(V) /\ Len(cq) = m
      BY <3>1, FunctionIsSeq
    <3>3. Append(cq, closed(p)) = [d \in 1..(m + 1) |-> IF d = m + 1 THEN closed(p) ELSE cq[d]]
      <4> DEFINE w == Append(cq, closed(p))
      <4>1. w \in Seq(V) /\ Len(w) = m + 1 /\ w[m + 1] = closed(p) /\ \A d \in 1..m : w[d] = cq[d]
        BY <1>2, <1>3, <3>1, <3>2
      <4> HIDE DEF w
      <4>2. w = [d \in 1..(m + 1) |-> w[d]]
        BY <3>1, <4>1
      <4>3. \A d \in 1..(m + 1) : w[d] = IF d = m + 1 THEN closed(p) ELSE cq[d]
        BY <3>1, <4>1
      <4>4. w = [d \in 1..(m + 1) |-> IF d = m + 1 THEN closed(p) ELSE cq[d]]
        BY <4>2, <4>3
      <4> QED BY <4>4 DEF w
    <3> QED BY <3>3 DEF cq, m
  <2>2. Closed(u) = [d \in 1..(Len(q) + 1) |-> closed(u[d])]
    BY <1>4, <1>8
  <2>3. ASSUME NEW d \in 1..(Len(q) + 1)
        PROVE  closed(u[d]) = IF d = Len(q) + 1 THEN closed(p) ELSE Closed(q)[d]
    <3>1. CASE d = Len(q) + 1
      BY <1>8, <3>1
    <3>2. CASE d # Len(q) + 1
      <4>1. d \in 1..Len(q)
        BY <1>5, <3>2
      <4>2. Closed(q)[d] = closed(q[d])
        BY <1>4, <4>1
      <4> QED BY <1>8, <3>2, <4>1, <4>2
    <3> QED BY <3>1, <3>2
  <2> QED BY <2>1, <2>2, <2>3
<1>10. Closed(q) \in Seq(Seq(Tokens)) /\ closed(p) \in Seq(Tokens)
  BY <1>2, <1>3, <1>7 DEF V
<1>11. FlattenSeq(Append(Closed(q), closed(p))) = FlattenSeq(Closed(q)) \o closed(p)
  BY <1>10, FlattenMore
<1> QED BY <1>7, <1>9, <1>10, <1>11 DEF u, closed

LEMMA Brackets == "]" \in Tokens /\ "[" \in Tokens /\ ":" \in Tokens /\ "," \in Tokens /\ "." \in Tokens
BY DEF Tokens, Separators

LEMMA OneToken ==
  ASSUME NEW T, NEW t \in T
  PROVE  <<t>> \in Seq(T)
OBVIOUS

LEMMA OneBracket == <<"]">> \in Seq(Tokens) /\ <<"[">> \in Seq(Tokens) /\ <<",">> \in Seq(Tokens)
BY Brackets, OneToken, Zenon

\* The first piece of a hyperslab is not empty, since it has the opening
\* bracket, and the last one is, since the text ends in a closing one.
LEMMA OuterPieces ==
  ASSUME NEW s \in Seq(Tokens), IsHyperslab(s), NEW ps, ps = Split(s, "]"),
         NEW c, CutAt(s, "]", ps, c)
  PROVE  Len(ps) >= 2 /\ c[Len(ps)] = Len(s) /\ c[2] \in 2..Len(s) /\ ps[1] # <<>> /\ ps[Len(ps)] = <<>>
<1> DEFINE N == Len(ps)
<1>1. /\ N \in Nat /\ N >= 1
      /\ \A k \in 1..(N + 1) : c[k] \in 0..(Len(s) + 1)
      /\ c[1] = 0 /\ c[N + 1] = Len(s) + 1
      /\ \A j, k \in 1..(N + 1) : c[j] <= c[k] <=> j <= k
      /\ \A k \in 2..N : c[k] \in 1..Len(s) /\ s[c[k]] = "]"
      /\ \A i \in 1..Len(s) : s[i] = "]" => \E k \in 2..N : c[k] = i
      /\ \A k \in 1..N : ps[k] = SubSeq(s, c[k] + 1, c[k + 1] - 1)
  BY DEF CutAt
<1>2. Len(s) \in Nat /\ Len(s) >= 3 /\ s[1] = "[" /\ s[Len(s)] = "]"
  BY DEF IsHyperslab
<1> HIDE DEF N
<1>3. PICK k \in 2..N : c[k] = Len(s)
  <2>1. Len(s) \in 1..Len(s)
    BY <1>2
  <2> QED BY <1>1, <1>2, <2>1
<1>4. N >= 2
  BY <1>1, <1>3
<1>5. k = N
  <2>1. N \in 2..N /\ N \in 1..(N + 1) /\ k \in 1..(N + 1)
    BY <1>1, <1>4
  <2>2. c[N] <= c[k]
    <3>1. c[N] \in 1..Len(s)
      BY <1>1, <2>1
    <3> QED BY <1>2, <1>3, <3>1
  <2>3. N <= k
    BY <1>1, <2>1, <2>2
  <2> QED BY <1>1, <2>3
<1>6. c[2] \in 2..Len(s)
  <2>1. c[2] \in 1..Len(s) /\ s[c[2]] = "]"
    <3>1. 2 \in 2..N
      BY <1>1, <1>4
    <3> QED BY <1>1, <3>1
  <2>2. c[2] # 1
    <3>1. "]" # "["
      OBVIOUS
    <3> QED BY <1>2, <2>1, <3>1
  <2> QED BY <1>2, <2>1, <2>2
<1>7. ps[1] # <<>>
  <2>1. ps[1] = SubSeq(s, 1, c[2] - 1)
    <3>1. 1 \in 1..N /\ 1 + 1 = 2 /\ c[1] + 1 = 1
      BY <1>1
    <3>2. ps[1] = SubSeq(s, c[1] + 1, c[1 + 1] - 1)
      BY <1>1, <3>1
    <3> QED BY <3>1, <3>2
  <2>2. Len(SubSeq(s, 1, c[2] - 1)) = c[2] - 1
    BY <1>2, <1>6
  <2>3. Len(<<>>) = 0
    OBVIOUS
  <2>4. c[2] - 1 # 0
    BY <1>6
  <2> QED BY <2>1, <2>2, <2>3, <2>4
<1>8. ps[N] = <<>>
  <2>1. ps[N] = SubSeq(s, c[N] + 1, c[N + 1] - 1)
    <3>1. N \in 1..N
      BY <1>1
    <3> QED BY <1>1, <3>1
  <2>2. SubSeq(s, c[N] + 1, c[N + 1] - 1) = SubSeq(s, Len(s) + 1, Len(s))
    <3>1. c[N] + 1 = Len(s) + 1 /\ c[N + 1] - 1 = Len(s)
      BY <1>1, <1>2, <1>3, <1>5
    <3> QED BY <3>1
  <2>3. SubSeq(s, Len(s) + 1, Len(s)) = <<>>
    <3>1. Len(s) + 1 \in Int /\ Len(s) \in Int /\ Len(s) < Len(s) + 1
      BY <1>2
    <3> QED BY <3>1, SubSeqEmpty
  <2> QED BY <2>1, <2>2, <2>3
<1> QED BY <1>3, <1>4, <1>5, <1>6, <1>7, <1>8 DEF N

LEMMA SlabsAre ==
  ASSUME NEW s \in Seq(Tokens), IsHyperslab(s), NEW q, q = Slabs(s)
  PROVE  /\ q \in Seq(Seq(Tokens)) /\ Len(q) >= 1
         /\ q = Kept(Split(s, "]"), Len(Split(s, "]")))
         /\ \A d \in 1..Len(q) : /\ Tail(q[d]) \in Seq(Tokens) /\ IsSlice(Tail(q[d]))
                                 /\ q[d] = <<"[">> \o Tail(q[d])
<1> DEFINE ps == Split(s, "]")
           N == Len(ps)
           V == Seq(Tokens)
           S == {k \in 1..N : ps[k] # <<>>}
<1>1. PICK c : CutAt(s, "]", ps, c)
  BY SplitIs
<1>2. N >= 2 /\ ps[1] # <<>>
  BY <1>1, OuterPieces
<1>3. ps \in Seq(V) /\ N \in Nat /\ DOMAIN ps = 1..N
  <2>1. ps \in Seq(Seq(Tokens))
    BY Brackets, SplitJoined
  <2> HIDE DEF ps
  <2> QED BY <2>1
<1>4. q = Kept(ps, N)
  <2>1. q = AtPlaces(ps, {k \in DOMAIN ps : ps[k] # <<>>})
    BY DEF Slabs
  <2> HIDE DEF ps, N
  <2> QED BY <1>3, <2>1 DEF Kept
<1> HIDE DEF ps
<1>5. /\ q \in Seq(V)
      /\ \A d \in 1..Len(q) : \E k \in 1..N : ps[k] # <<>> /\ q[d] = ps[k]
  <2>1. ps \in Seq(V) /\ N \in 0..Len(ps) /\ N = Len(ps)
    BY <1>3
  <2> HIDE DEF V, N
  <2>2. /\ Kept(ps, N) \in Seq(V)
        /\ \A d \in 1..Len(Kept(ps, N)) :
              \E k \in 1..Len(ps) : ps[k] # <<>> /\ Kept(ps, N)[d] = ps[k]
    BY ONLY <2>1, KeptIs, SMT
  <2> QED BY ONLY <1>4, <2>1, <2>2, Zenon
<1>6. Len(q) >= 1
  <2>1. S \in SUBSET (1..N) /\ 1 \in S
    BY <1>2, <1>3
  <2>2. IsFiniteSet(1..N) /\ 1..N \subseteq Nat
    BY <1>3, FS_Interval
  <2>3. q = AtPlaces(ps, S)
    BY <1>4 DEF Kept
  <2> HIDE DEF S, N
  <2>4. IsFiniteSet(S)
    BY <2>1, <2>2, FS_Subset
  <2>5. Cardinality(S) \in Nat /\ Cardinality(S) # 0
    BY <2>1, <2>4, FS_CardinalityType, FS_EmptySet
  <2>6. Len(q) = Cardinality(S)
    <3> DEFINE e(k) == ps[Ascending(S)[k]]
    <3>1. q = [k \in 1..Cardinality(S) |-> e(k)]
      BY <2>3 DEF AtPlaces
    <3> HIDE DEF e
    <3> QED BY <2>5, <3>1
  <2> QED BY <2>5, <2>6
<1>7. ASSUME NEW d \in 1..Len(q)
      PROVE  Tail(q[d]) \in Seq(Tokens) /\ IsSlice(Tail(q[d])) /\ q[d] = <<"[">> \o Tail(q[d])
  <2> DEFINE p == q[d]
  <2>1. p \in ToSet(q)
    <3>1. DOMAIN q = 1..Len(q)
      BY <1>5
    <3> QED BY <3>1 DEF ToSet
  <2>2. p[1] = "[" /\ IsSlice(Tail(p))
    <3> HIDE DEF p
    <3> QED BY <2>1 DEF IsHyperslab
  <2>3. p \in Seq(Tokens) /\ p # <<>>
    <3>1. p \in V
      <4> HIDE DEF V
      <4> QED BY <1>5, ElementOfSeq
    <3>2. PICK k \in 1..N : ps[k] # <<>> /\ q[d] = ps[k]
      BY <1>5
    <3> QED BY <3>1, <3>2
  <2> HIDE DEF p
  <2>4. Tail(p) \in Seq(Tokens)
    BY <2>3
  <2>5. p = <<"[">> \o Tail(p)
    <3>1. Len(p) \in Nat /\ Len(p) # 0
      BY <2>3, EmptySeq
    <3>2. 1 \in 1..Len(p) /\ Len(p) \in 1..Len(p)
      BY <3>1
    <3>3. SubSeq(p, 1, Len(p)) = <<p[1]>> \o SubSeq(p, 1 + 1, Len(p))
      BY <2>3, <3>2, SubSeqRecursiveFirst
    <3>4. SubSeq(p, 1, Len(p)) = p /\ Tail(p) = SubSeq(p, 2, Len(p))
      BY <2>3, SubSeqFull, TailIsSubSeq
    <3>5. 1 + 1 = 2
      OBVIOUS
    <3> QED BY <2>2, <3>3, <3>4, <3>5
  <2> QED BY <2>2, <2>4, <2>5 DEF p
<1> QED BY <1>4, <1>5, <1>6, <1>7 DEF ps

\* Written out again, the slabs are the text, up to repeated brackets.
LEMMA SlabsWritten ==
  ASSUME NEW s \in Seq(Tokens), IsHyperslab(s)
  PROVE  /\ FlattenSeq(Closed(Slabs(s))) \in Seq(Tokens)
         /\ Same(Tokens, FlattenSeq(Closed(Slabs(s))), s)
<1> DEFINE ps == Split(s, "]")
           N == Len(ps)
           G(n) == FlattenSeq(Closed(Kept(ps, n)))
<1>1. PICK c : CutAt(s, "]", ps, c)
  BY SplitIs
<1>2. /\ N \in Nat
      /\ \A k \in 1..(N + 1) : c[k] \in 0..(Len(s) + 1)
      /\ \A k \in 1..N : c[k] < c[k + 1]
      /\ \A k \in 2..N : c[k] \in 1..Len(s) /\ s[c[k]] = "]"
      /\ \A k \in 1..N : ps[k] = SubSeq(s, c[k] + 1, c[k + 1] - 1)
  BY <1>1 DEF CutAt
<1>3. N >= 2 /\ c[N] = Len(s) /\ c[2] \in 2..Len(s) /\ ps[1] # <<>> /\ ps[N] = <<>> /\ c[1] = 0
  <2>1. c[1] = 0
    BY <1>1 DEF CutAt
  <2> QED BY <1>1, <2>1, OuterPieces
<1>4. ps \in Seq(Seq(Tokens)) /\ \A k \in 1..N : ps[k] \in Seq(Tokens)
  <2>1. ps \in Seq(Seq(Tokens))
    BY Brackets, SplitJoined
  <2> DEFINE V == Seq(Tokens)
  <2>2. ps \in Seq(V)
    BY <2>1
  <2> HIDE DEF ps, V
  <2>3. \A k \in 1..N : ps[k] \in V
    BY <2>2, ElementOfSeq
  <2> QED BY <2>1, <2>3 DEF V
<1> HIDE DEF ps, N
<1>5. Len(s) \in Nat
  OBVIOUS
<1>6. \A n \in 0..N : Kept(ps, n) \in Seq(Seq(Tokens))
  <2> DEFINE V == Seq(Tokens)
  <2>1. ps \in Seq(V)
    BY <1>4
  <2> HIDE DEF V
  <2>2. \A n \in 0..N : Kept(ps, n) \in Seq(V)
    BY <2>1, KeptIs DEF N
  <2> QED BY <2>2 DEF V
<1>7. \A n \in 0..N : G(n) \in Seq(Tokens)
  <2> SUFFICES ASSUME NEW n \in 0..N PROVE G(n) \in Seq(Tokens)
    OBVIOUS
  <2>1. Kept(ps, n) \in Seq(Seq(Tokens))
    BY <1>6
  <2>2. <<>> \in Seq(Tokens)
    OBVIOUS
  <2>3. Closed(Kept(ps, n)) \in Seq(Seq(Tokens))
    BY <2>1, <2>2, ClosedMore
  <2> QED BY <2>3, Flattened
<1>8. ASSUME NEW n \in Nat, n + 1 \in 1..N
      PROVE  G(n + 1) = IF ps[n + 1] = <<>> THEN G(n) ELSE G(n) \o (ps[n + 1] \o <<"]">>)
  <2>1. CASE ps[n + 1] = <<>>
    <3>1. Kept(ps, n + 1) = Kept(ps, n)
      BY <2>1, KeptMore
    <3> QED BY <2>1, <3>1
  <2>2. CASE ps[n + 1] # <<>>
    <3>1. Kept(ps, n + 1) = Append(Kept(ps, n), ps[n + 1])
      BY <2>2, KeptMore
    <3>2. n \in 0..N
      BY <1>2, <1>8
    <3>3. Kept(ps, n) \in Seq(Seq(Tokens)) /\ ps[n + 1] \in Seq(Tokens)
      BY <1>4, <1>6, <1>8, <3>2
    <3>4. FlattenSeq(Closed(Append(Kept(ps, n), ps[n + 1]))) = G(n) \o (ps[n + 1] \o <<"]">>)
      BY <3>3, ClosedMore
    <3> QED BY <2>2, <3>1, <3>4
  <2> QED BY <2>1, <2>2
<1>9. G(0) = <<>>
  <2>1. Kept(ps, 0) = <<>>
    BY KeptNone
  <2>2. Closed(<<>>) = <<>>
    BY DEF Closed
  <2>3. FlattenSeq(<<>>) = <<>>
    BY DEF FlattenSeq
  <2> QED BY <2>1, <2>2, <2>3
<1>10. ASSUME NEW n \in Nat, n + 1 \in 1..(N - 1)
       PROVE  /\ c[n + 2] \in 1..Len(s)
              /\ SubSeq(s, c[n + 1] + 1, c[n + 2]) = ps[n + 1] \o <<"]">>
  <2>1. n + 2 \in 2..N /\ n + 1 \in 1..N /\ n + 1 \in 1..(N + 1) /\ (n + 1) + 1 = n + 2
    BY <1>2, <1>10
  <2>2. c[n + 2] \in 1..Len(s) /\ s[c[n + 2]] = "]"
    BY <1>2, <2>1
  <2>3. c[n + 1] < c[n + 2] /\ c[n + 1] \in 0..(Len(s) + 1)
    BY <1>2, <2>1
  <2>4. ps[n + 1] = SubSeq(s, c[n + 1] + 1, c[n + 2] - 1)
    BY <1>2, <2>1
  <2>5. c[n + 1] + 1 \in 1..Len(s) /\ c[n + 2] \in (c[n + 1] + 1)..Len(s)
    BY <1>5, <2>2, <2>3
  <2>6. SubSeq(s, c[n + 1] + 1, c[n + 2]) = SubSeq(s, c[n + 1] + 1, c[n + 2] - 1) \o <<s[c[n + 2]]>>
    BY <2>5, SubSeqRecursiveSecond
  <2> QED BY <2>2, <2>4, <2>6
<1> DEFINE P == {n \in Nat : n + 1 <= N - 1 =>
                     Same(Tokens, G(n + 1), SubSeq(s, 1, c[n + 2])) /\ Ends(G(n + 1))}
<1>11. \A p \in Seq(Tokens) : Ends(p \o <<"]">>)
  <2> SUFFICES ASSUME NEW p \in Seq(Tokens) PROVE Ends(p \o <<"]">>)
    OBVIOUS
  <2>1. p \o <<"]">> = Append(p, "]")
    BY Brackets, AppendIsConcat
  <2>2. Ends(Append(p, "]"))
    BY Brackets, ForgiveMore
  <2> QED BY <2>1, <2>2
<1>12. 0 \in P
  <2>1. 0 + 1 \in 1..N /\ 0 + 1 \in 1..(N - 1) /\ 0 + 1 = 1 /\ 0 + 2 = 2 /\ 1 \in 1..N /\ 0 \in Nat
    BY <1>2, <1>3
  <2>2. G(1) = <<>> \o (ps[1] \o <<"]">>)
    BY <1>3, <1>8, <1>9, <2>1
  <2>3. SubSeq(s, 1, c[2]) = ps[1] \o <<"]">>
    <3>1. c[1] + 1 = 1
      BY <1>3
    <3> QED BY <1>10, <2>1, <3>1
  <2>4. ps[1] \in Seq(Tokens) /\ ps[1] \o <<"]">> \in Seq(Tokens)
    <3> DEFINE e == <<"]">>
    <3>1. e \in Seq(Tokens)
      BY OneBracket
    <3>2. ps[1] \in Seq(Tokens)
      BY <1>4, <2>1
    <3> HIDE DEF e
    <3>3. ps[1] \o e \in Seq(Tokens)
      BY <3>1, <3>2
    <3> QED BY <3>2, <3>3 DEF e
  <2>5. <<>> \o (ps[1] \o <<"]">>) = ps[1] \o <<"]">>
    BY <2>4, ConcatEmptySeq
  <2>6. G(1) = SubSeq(s, 1, c[2]) /\ Ends(G(1)) /\ G(1) \in Seq(Tokens)
    BY <1>11, <2>2, <2>3, <2>4, <2>5
  <2> HIDE DEF G
  <2>7. Same(Tokens, G(1), SubSeq(s, 1, c[2]))
    BY <2>6, SameItself
  <2> QED BY <2>1, <2>6, <2>7
<1>13. ASSUME NEW n \in Nat, n \in P PROVE n + 1 \in P
  <2> SUFFICES ASSUME n + 2 <= N - 1
               PROVE  Same(Tokens, G(n + 2), SubSeq(s, 1, c[n + 3])) /\ Ends(G(n + 2))
    OBVIOUS
  <2> DEFINE m == n + 1
  <2>1. m \in Nat /\ m + 1 = n + 2 /\ m + 2 = n + 3 /\ m + 1 \in 1..N /\ m + 1 \in 1..(N - 1)
        /\ n + 1 \in 1..(N - 1) /\ m + 1 \in 2..N /\ m + 1 \in 0..N /\ m \in 0..N
    BY <1>2
  <2>2. Same(Tokens, G(m), SubSeq(s, 1, c[m + 1])) /\ Ends(G(m))
    BY <1>13, <2>1
  <2>3. c[m + 2] \in 1..Len(s) /\ SubSeq(s, c[m + 1] + 1, c[m + 2]) = ps[m + 1] \o <<"]">>
    BY <1>10, <2>1
  <2>4. G(m + 1) = IF ps[m + 1] = <<>> THEN G(m) ELSE G(m) \o (ps[m + 1] \o <<"]">>)
    BY <1>8, <2>1
  <2>5. G(m) \in Seq(Tokens) /\ G(m + 1) \in Seq(Tokens) /\ ps[m + 1] \in Seq(Tokens)
    BY <1>4, <1>7, <2>1
  <2> DEFINE a == SubSeq(s, 1, c[m + 1])
             b == ps[m + 1] \o <<"]">>
  <2>6. SubSeq(s, 1, c[m + 2]) = a \o b
    <3>1. c[m + 1] \in 1..Len(s) /\ c[m + 1] < c[m + 2]
      <4>1. m + 1 \in 1..N /\ (m + 1) + 1 = m + 2
        BY <2>1
      <4> QED BY <1>2, <2>1, <4>1
    <3>2. 1 \in 1..(Len(s) + 1) /\ c[m + 1] \in (1 - 1)..Len(s) /\ c[m + 2] \in c[m + 1]..Len(s)
      <4>1. 1 - 1 = 0 /\ 1 \in 1..(Len(s) + 1)
        BY <1>5
      <4>2. c[m + 1] \in 0..Len(s)
        BY <1>5, <3>1
      <4>3. c[m + 2] \in c[m + 1]..Len(s)
        BY <1>5, <2>3, <3>1
      <4> QED BY <4>1, <4>2, <4>3
    <3>3. a \o SubSeq(s, c[m + 1] + 1, c[m + 2]) = SubSeq(s, 1, c[m + 2])
      BY <3>2, ConcatAdjacentSubSeq
    <3> QED BY <2>3, <3>3
  <2>7. a \in Seq(Tokens) /\ b \in Seq(Tokens)
    <3>1. c[m + 1] \in 1..Len(s)
      BY <1>2, <2>1
    <3>2. \A i \in 1..c[m + 1] : s[i] \in Tokens
      BY <1>5, <3>1
    <3>3. a \in Seq(Tokens)
      BY <3>1, <3>2, SubSeqProperties
    <3> DEFINE e == <<"]">>
    <3>4. e \in Seq(Tokens)
      BY OneBracket
    <3> HIDE DEF e
    <3>5. ps[m + 1] \o e \in Seq(Tokens)
      BY <2>5, <3>4
    <3> QED BY <3>3, <3>5 DEF e
  <2> HIDE DEF P, G, a, m
  <2>8. CASE ps[m + 1] = <<>>
    <3>1. b = <<"]">>
      <4>1. <<"]">> \in Seq(Tokens)
        BY OneBracket
      <4> QED BY <2>8, <4>1, ConcatEmptySeq
    <3>2. Same(Tokens, G(m) \o <<"]">>, G(m))
      BY <2>2, <2>5, Brackets, BracketTwice
    <3>3. Same(Tokens, G(m) \o b, a \o b)
      <4> HIDE DEF b
      <4>1. Same(Tokens, b, b)
        BY <2>7, SameItself
      <4>2. Same(Tokens, G(m), a)
        BY <2>2 DEF a
      <4> QED BY <2>5, <2>7, <4>1, <4>2, SameJoined
    <3>4. Same(Tokens, G(m), a \o b)
      <4>1. Same(Tokens, G(m), G(m) \o b)
        BY <3>1, <3>2, SameBack
      <4> HIDE DEF b
      <4> QED BY <3>3, <4>1, SameThrough
    <3> QED BY <2>1, <2>2, <2>4, <2>6, <2>8, <3>4
  <2>9. CASE ps[m + 1] # <<>>
    <3>1. G(m + 1) = G(m) \o b
      BY <2>4, <2>9
    <3>2. Same(Tokens, G(m) \o b, a \o b)
      <4> HIDE DEF b
      <4>1. Same(Tokens, b, b)
        BY <2>7, SameItself
      <4>2. Same(Tokens, G(m), a)
        BY <2>2 DEF a
      <4> QED BY <2>5, <2>7, <4>1, <4>2, SameJoined
    <3>3. Ends(G(m) \o b)
      <4>1. G(m) \o ps[m + 1] \in Seq(Tokens) /\ <<"]">> \in Seq(Tokens)
        <5> DEFINE p == ps[m + 1]
                   g == G(m)
        <5>1. p \in Seq(Tokens) /\ g \in Seq(Tokens)
          BY <2>5
        <5> HIDE DEF p, g
        <5>2. g \o p \in Seq(Tokens)
          BY <5>1
        <5> QED BY <5>2, OneBracket DEF p, g
      <4>2. (G(m) \o ps[m + 1]) \o <<"]">> = G(m) \o b
        <5> DEFINE e == <<"]">>
                   p == ps[m + 1]
                   g == G(m)
        <5>1. e \in Seq(Tokens) /\ p \in Seq(Tokens) /\ g \in Seq(Tokens)
          BY <2>5, <4>1
        <5> HIDE DEF e, p, g
        <5>2. (g \o p) \o e = g \o (p \o e)
          BY <5>1
        <5> QED BY <5>2 DEF e, p, g
      <4>3. Ends((G(m) \o ps[m + 1]) \o <<"]">>)
        BY <1>11, <4>1
      <4> QED BY <4>2, <4>3
    <3> QED BY <2>1, <2>6, <3>1, <3>2, <3>3
  <2> QED BY <2>8, <2>9
<1>14. Nat \subseteq P
  <2> HIDE DEF P
  <2> QED BY <1>12, <1>13, SetInduction
<1>15. Same(Tokens, G(N - 1), SubSeq(s, 1, c[N]))
  <2>1. N - 2 \in Nat /\ (N - 2) + 1 = N - 1 /\ (N - 2) + 2 = N /\ N - 1 <= N - 1
    BY <1>2, <1>3
  <2>2. N - 2 \in P
    BY <1>14, <2>1
  <2> HIDE DEF G
  <2> QED BY <2>1, <2>2
<1>16. G(N) = G(N - 1)
  <2>1. N - 1 \in Nat /\ (N - 1) + 1 = N /\ N \in 1..N
    BY <1>2, <1>3
  <2> HIDE DEF G
  <2> QED BY <1>3, <1>8, <2>1
<1>17. SubSeq(s, 1, c[N]) = s
  BY <1>3, SubSeqFull
<1>18. Slabs(s) = Kept(ps, N)
  BY SlabsAre DEF ps, N
<1>19. N \in 0..N
  BY <1>2
<1> QED BY <1>7, <1>15, <1>16, <1>17, <1>18, <1>19

LEMMA HyperslabWritten ==
  ASSUME OneNumeral, NEW s \in Seq(Tokens), IsHyperslab(s), NEW h, h = HyperslabOf(s)
  PROVE  /\ FlattenSeq([d \in 1..Len(h) |-> RenderSlice(h[d])]) \in Seq(Tokens)
         /\ Same(Tokens, FlattenSeq([d \in 1..Len(h) |-> RenderSlice(h[d])]), s)
<1> DEFINE q == Slabs(s)
           M == Len(q)
           slice(d) == SliceOf(Tail(q[d]))
<1>1. /\ q \in Seq(Seq(Tokens))
      /\ \A d \in 1..M : /\ Tail(q[d]) \in Seq(Tokens) /\ IsSlice(Tail(q[d]))
                         /\ q[d] = <<"[">> \o Tail(q[d])
  BY SlabsAre
<1>2. M \in Nat
  <2> HIDE DEF q
  <2> QED BY <1>1
<1>3. h = [d \in 1..M |-> slice(d)]
  BY DEF HyperslabOf
<1>4. Len(h) = M /\ \A d \in 1..M : h[d] = slice(d)
  <2> HIDE DEF M, slice
  <2> QED BY <1>2, <1>3
<1>5. \A d \in 1..M : RenderSlice(h[d]) = q[d] \o <<"]">>
  <2> SUFFICES ASSUME NEW d \in 1..M PROVE RenderSlice(h[d]) = q[d] \o <<"]">>
    OBVIOUS
  <2> DEFINE t == Tail(q[d])
  <2>1. t \in Seq(Tokens) /\ IsSlice(t) /\ q[d] = <<"[">> \o t
    BY <1>1
  <2>2. h[d] = SliceOf(t)
    BY <1>4
  <2> HIDE DEF q, t, M
  <2>3. RenderSlice(SliceOf(t)) = (<<"[">> \o t) \o <<"]">>
    BY <2>1, SliceWritten
  <2> QED BY <2>1, <2>2, <2>3
<1>6. [d \in 1..Len(h) |-> RenderSlice(h[d])] = Closed(q)
  <2> DEFINE w(d) == RenderSlice(h[d])
             closed(d) == q[d] \o <<"]">>
  <2>1. \A d \in 1..M : w(d) = closed(d)
    BY <1>5
  <2>2. Closed(q) = [d \in 1..M |-> closed(d)]
    BY DEF Closed
  <2>3. [d \in 1..Len(h) |-> RenderSlice(h[d])] = [d \in 1..M |-> w(d)]
    BY <1>4
  <2> HIDE DEF w, closed, M
  <2> QED BY <2>1, <2>2, <2>3
<1> HIDE DEF M, slice
<1> QED BY <1>6, SlabsWritten

-----------------------------------------------------------------------------
(* Items and queries.                                                       *)

LEMMA LeastOf ==
  ASSUME NEW S, S # {}, S \subseteq Nat
  PROVE  \E x \in S : \A y \in S : x <= y
<1>1. PICK x \in S : \A y \in S : <<y, x>> \notin OpToRel(<, Nat)
  BY WFMin, NatLessThanWellFounded
<1>2. \A y \in S : ~(y < x)
  BY <1>1 DEF OpToRel
<1> QED BY <1>2

LEMMA FindIs ==
  ASSUME NEW s \in Seq(Tokens), NEW sep
  PROVE  /\ Find(s, sep) \in 0..Len(s)
         /\ Find(s, sep) # 0 => s[Find(s, sep)] = sep
<1> DEFINE S == {i \in 1..Len(s) : s[i] = sep}
<1>1. Find(s, sep) = IF S # {} THEN Min(S) ELSE 0
  BY DEF Find, SelectInSeq
<1>2. Len(s) \in Nat
  OBVIOUS
<1>3. CASE S = {}
  BY <1>1, <1>2, <1>3
<1>4. CASE S # {}
  <2>1. S \subseteq Nat
    OBVIOUS
  <2> HIDE DEF S
  <2>2. \E x \in S : \A y \in S : x <= y
    BY <1>4, <2>1, LeastOf
  <2>3. Min(S) \in S
    BY <2>2 DEF Min
  <2>4. Min(S) \in 1..Len(s) /\ s[Min(S)] = sep
    BY <2>3 DEF S
  <2> QED BY <1>1, <1>2, <1>4, <2>4
<1> QED BY <1>3, <1>4

\* What is before the separator, the separator, and what is after it.
LEMMA FoundParts ==
  ASSUME NEW s \in Seq(Tokens), NEW i \in 1..Len(s)
  PROVE  /\ SubSeq(s, 1, i - 1) \in Seq(Tokens) /\ SubSeq(s, i, Len(s)) \in Seq(Tokens)
         /\ SubSeq(s, i + 1, Len(s)) \in Seq(Tokens)
         /\ s = Append(SubSeq(s, 1, i - 1), s[i]) \o SubSeq(s, i + 1, Len(s))
         /\ s = SubSeq(s, 1, i - 1) \o SubSeq(s, i, Len(s))
<1>1. Len(s) \in Nat /\ \A j \in 1..Len(s) : s[j] \in Tokens
  OBVIOUS
<1>2. SubSeq(s, 1, i - 1) \in Seq(Tokens)
  <2>1. \A j \in 1..(i - 1) : s[j] \in Tokens
    BY <1>1
  <2> QED BY <2>1, SubSeqProperties
<1>3. SubSeq(s, i, Len(s)) \in Seq(Tokens)
  <2>1. \A j \in i..Len(s) : s[j] \in Tokens
    BY <1>1
  <2> QED BY <1>1, <2>1, SubSeqProperties
<1>4. SubSeq(s, i + 1, Len(s)) \in Seq(Tokens)
  <2>1. \A j \in (i + 1)..Len(s) : s[j] \in Tokens
    BY <1>1
  <2> QED BY <1>1, <2>1, SubSeqProperties
<1>5. s = Append(SubSeq(s, 1, i - 1), s[i]) \o SubSeq(s, i + 1, Len(s))
  <2>1. SubSeq(s, 1, i) = SubSeq(s, 1, i - 1) \o <<s[i]>>
    <3>1. 1 \in 1..Len(s) /\ i \in 1..Len(s)
      BY <1>1
    <3> QED BY <3>1, SubSeqRecursiveSecond
  <2>2. Append(SubSeq(s, 1, i - 1), s[i]) = SubSeq(s, 1, i - 1) \o <<s[i]>>
    BY <1>1, <1>2, AppendIsConcat
  <2>3. SubSeq(s, 1, i) \o SubSeq(s, i + 1, Len(s)) = SubSeq(s, 1, Len(s))
    <3>1. 1 \in 1..(Len(s) + 1) /\ i \in (1 - 1)..Len(s) /\ Len(s) \in i..Len(s)
      BY <1>1
    <3> QED BY <3>1, ConcatAdjacentSubSeq
  <2>4. SubSeq(s, 1, Len(s)) = s
    BY SubSeqFull
  <2> QED BY <2>1, <2>2, <2>3, <2>4
<1>6. s = SubSeq(s, 1, i - 1) \o SubSeq(s, i, Len(s))
  <2>1. 1 \in 1..(Len(s) + 1) /\ i - 1 \in (1 - 1)..Len(s) /\ Len(s) \in (i - 1)..Len(s)
        /\ (i - 1) + 1 = i
    BY <1>1
  <2>2. SubSeq(s, 1, i - 1) \o SubSeq(s, (i - 1) + 1, Len(s)) = SubSeq(s, 1, Len(s))
    BY <2>1, ConcatAdjacentSubSeq
  <2>3. SubSeq(s, 1, Len(s)) = s
    BY SubSeqFull
  <2> QED BY <2>1, <2>2, <2>3
<1> QED BY <1>2, <1>3, <1>4, <1>5, <1>6

LEMMA FlattenOne ==
  ASSUME NEW T, NEW x \in Seq(T), NEW ss, ss = [k \in 1..1 |-> x]
  PROVE  FlattenSeq(ss) = x
<1> DEFINE V == Seq(T)
<1>1. x \in V /\ <<>> \in Seq(Seq(T)) /\ <<>> \in Seq(T)
  OBVIOUS
<1>2. ss = Append(<<>>, x)
  OBVIOUS
<1>3. FlattenSeq(Append(<<>>, x)) = FlattenSeq(<<>>) \o x
  BY <1>1, FlattenMore
<1>4. FlattenSeq(<<>>) = <<>>
  BY DEF FlattenSeq
<1>5. <<>> \o x = x
  BY ConcatEmptySeq
<1> QED BY <1>2, <1>3, <1>4, <1>5

\* An item is written as it was, up to repeated brackets.
LEMMA ItemWritten ==
  ASSUME OneNumeral, NEW v \in Seq(Tokens), IsItem(v)
  PROVE  RenderItem(ItemOf(v)) \in Seq(Tokens) /\ Same(Tokens, RenderItem(ItemOf(v)), v)
<1> DEFINE i == Find(v, ".")
           w == SubSeq(v, i + 1, Len(v))
           b == Find(w, "[")
           h == HyperslabOf(SubSeq(w, b, Len(w)))
           F(s) == FlattenSeq([d \in 1..Len(s) |-> RenderSlice(s[d])])
           outer == IF i = 0 THEN <<>> ELSE SubSeq(v, 1, i - 1)
           pre == IF i # 0 THEN Append(outer, ".") ELSE <<>>
           name == IF b = 0 THEN w ELSE SubSeq(w, 1, b - 1)
           slab == IF b = 0 THEN <<>> ELSE <<h>>
           rest == FlattenSeq([k \in 1..Len(slab) |-> F(slab[k])])
<1>1. Inner(v) = w /\ Bracket(v) = b /\ SlabText(v) = SubSeq(w, b, Len(w))
  BY DEF Inner, Bracket, SlabText
<1>2. ItemOf(v) = [struct |-> i # 0, outer |-> outer, name |-> name, slab |-> slab]
  BY <1>1 DEF ItemOf
<1>3. RenderItem(ItemOf(v)) = (pre \o name) \o rest
  <2> DEFINE item == ItemOf(v)
  <2>1. /\ item.struct <=> i # 0
        /\ item.outer = outer /\ item.name = name /\ item.slab = slab
    <3> DEFINE B == i # 0
    <3>1. item = [struct |-> B, outer |-> outer, name |-> name, slab |-> slab] /\ B \in BOOLEAN
      BY <1>2
    <3> HIDE DEF B, item, outer, name, slab
    <3>2. item.struct = B /\ item.outer = outer /\ item.name = name /\ item.slab = slab
      BY <3>1
    <3> QED BY <3>2 DEF B
  <2>2. RenderItem(item) = (IF item.struct THEN Append(item.outer, ".") ELSE <<>>)
                           \o item.name \o FlattenSeq([k \in 1..Len(item.slab) |-> F(item.slab[k])])
    <3> HIDE DEF item
    <3> QED BY DEF RenderItem
  <2> HIDE DEF item, i, outer, name, slab
  <2>3. (IF item.struct THEN Append(item.outer, ".") ELSE <<>>) = pre
    BY <2>1
  <2>4. FlattenSeq([k \in 1..Len(item.slab) |-> F(item.slab[k])]) = rest
    BY <2>1
  <2> HIDE DEF F, pre, rest
  <2> QED BY <2>1, <2>2, <2>3, <2>4 DEF item
<1>4. i \in 0..Len(v) /\ Len(v) \in Nat /\ (i # 0 => v[i] = ".")
  BY FindIs
<1>5. pre \in Seq(Tokens) /\ w \in Seq(Tokens) /\ v = pre \o w
  <2>1. CASE i = 0
    <3>1. w = v
      <4>1. w = SubSeq(v, 1, Len(v))
        BY <2>1
      <4> QED BY <4>1, SubSeqFull
    <3>2. pre = <<>> /\ <<>> \in Seq(Tokens)
      BY <2>1
    <3>3. <<>> \o v = v
      BY ConcatEmptySeq
    <3> QED BY <3>1, <3>2, <3>3
  <2>2. CASE i # 0
    <3> HIDE DEF i
    <3>1. i \in 1..Len(v) /\ v[i] = "."
      BY <1>4, <2>2
    <3>2. /\ SubSeq(v, 1, i - 1) \in Seq(Tokens) /\ w \in Seq(Tokens)
          /\ v = Append(SubSeq(v, 1, i - 1), v[i]) \o w
      BY <3>1, FoundParts
    <3>3. pre = Append(SubSeq(v, 1, i - 1), ".")
      BY <2>2
    <3>4. Append(SubSeq(v, 1, i - 1), ".") \in Seq(Tokens)
      BY <3>2, Brackets, AppendProperties
    <3> QED BY <3>1, <3>2, <3>3, <3>4
  <2> QED BY <2>1, <2>2
<1> HIDE DEF pre
<1>6. CASE b = 0
  <2>1. name = w /\ slab = <<>>
    BY <1>6
  <2>2. rest = <<>>
    <3> HIDE DEF slab
    <3>1. [k \in 1..Len(slab) |-> F(slab[k])] = <<>>
      BY <2>1
    <3> QED BY <3>1 DEF FlattenSeq
  <2> HIDE DEF w, name, rest
  <2>3. (pre \o w) \o <<>> = v
    BY <1>5, ConcatEmptySeq
  <2>4. RenderItem(ItemOf(v)) = v
    BY <1>3, <2>1, <2>2, <2>3
  <2> QED BY <2>4, SameItself
<1>7. CASE b # 0
  <2> DEFINE text == SubSeq(w, b, Len(w))
  <2>1. name = SubSeq(w, 1, b - 1) /\ slab = <<h>>
    BY <1>7
  <2>2. IsHyperslab(text)
    BY <1>1, <1>7 DEF IsItem
  <2>3. name \in Seq(Tokens) /\ text \in Seq(Tokens) /\ w = name \o text
    <3> HIDE DEF w
    <3>1. b \in 1..Len(w)
      <4>1. b \in 0..Len(w) /\ Len(w) \in Nat
        BY <1>5, FindIs
      <4> HIDE DEF b
      <4> QED BY <1>7, <4>1
    <3> HIDE DEF b
    <3>2. /\ SubSeq(w, 1, b - 1) \in Seq(Tokens) /\ text \in Seq(Tokens)
          /\ w = SubSeq(w, 1, b - 1) \o text
      BY <1>5, <3>1, FoundParts
    <3> HIDE DEF text, name
    <3> QED BY <2>1, <3>2
  <2>4. F(h) \in Seq(Tokens) /\ Same(Tokens, F(h), text)
    <3>1. h = HyperslabOf(text)
      OBVIOUS
    <3> HIDE DEF text, h
    <3> QED BY <2>2, <2>3, <3>1, HyperslabWritten
  <2> HIDE DEF h, w, name, text
  <2>5. rest = F(h)
    <3> DEFINE x == F(h)
    <3>1. [k \in 1..Len(slab) |-> F(slab[k])] = [k \in 1..1 |-> F(h)]
      <4> HIDE DEF F
      <4>1. Len(<<h>>) = 1 /\ <<h>>[1] = h
        OBVIOUS
      <4>2. \A k \in 1..1 : k = 1
        OBVIOUS
      <4> HIDE DEF slab
      <4> QED BY <2>1, <4>1, <4>2
    <3> HIDE DEF x, slab
    <3>2. FlattenSeq([k \in 1..1 |-> F(h)]) = F(h)
      <4> HIDE DEF F
      <4> QED BY <2>4, FlattenOne
    <3> QED BY <3>1, <3>2
  <2> HIDE DEF F, rest
  <2>6. pre \o name \in Seq(Tokens)
    BY <1>5, <2>3
  <2>7. Same(Tokens, (pre \o name) \o F(h), (pre \o name) \o text)
    <3>1. Same(Tokens, pre \o name, pre \o name)
      BY <2>6, SameItself
    <3> QED BY <2>3, <2>4, <2>6, <3>1, SameJoined
  <2>8. (pre \o name) \o text = v
    <3>1. (pre \o name) \o text = pre \o (name \o text)
      BY <1>5, <2>3
    <3> QED BY <1>5, <2>3, <3>1
  <2>9. (pre \o name) \o F(h) \in Seq(Tokens)
    BY <2>4, <2>6
  <2> QED BY <1>3, <2>5, <2>7, <2>8, <2>9
<1> QED BY <1>6, <1>7

\* A query that is accepted is written as it was, up to repeated brackets.
LEMMA QueryWritten ==
  ASSUME OneNumeral, NEW s \in Seq(Tokens), Accepted(s)
  PROVE  ForgiveBrackets(Render(Parse(s))) = ForgiveBrackets(s)
<1> DEFINE ps == Split(s, ",")
           N == Len(ps)
           items == Parse(s)
           p(k) == IF k = 1 THEN ps[k] ELSE <<",">> \o ps[k]
           w(k) == IF k = 1 THEN RenderItem(items[k]) ELSE <<",">> \o RenderItem(items[k])
           r == [k \in 1..N |-> p(k)]
           t == [k \in 1..N |-> w(k)]
<1>1. N \in Nat /\ ps \in Seq(Seq(Tokens)) /\ r \in Seq(Seq(Tokens)) /\ FlattenSeq(r) = s
  <2>1. r = Between(ps, ",")
    BY DEF Between
  <2> HIDE DEF r
  <2> QED BY <2>1, Brackets, SplitJoined
<1>2. \A k \in 1..N : ps[k] \in Seq(Tokens) /\ IsItem(ps[k])
  <2> DEFINE V == Seq(Tokens)
  <2>1. ps \in Seq(V)
    BY <1>1
  <2>2. \A x \in ToSet(ps) : IsItem(x)
    BY DEF Accepted
  <2> HIDE DEF V, ps
  <2>3. DOMAIN ps = 1..N
    BY <2>1
  <2>4. \A k \in 1..N : ps[k] \in ToSet(ps)
    BY <2>3 DEF ToSet
  <2>5. \A k \in 1..N : ps[k] \in V
    BY <2>1, ElementOfSeq
  <2> QED BY <2>2, <2>4, <2>5 DEF V
<1>3. Len(items) = N /\ \A k \in 1..N : items[k] = ItemOf(ps[k])
  <2> DEFINE e(k) == ItemOf(ps[k])
  <2>1. items = [k \in 1..N |-> e(k)]
    BY DEF Parse
  <2>2. N \in Nat
    BY <1>1
  <2> HIDE DEF items, e, N
  <2>3. Len(items) = N /\ \A k \in 1..N : items[k] = e(k)
    BY <2>1, <2>2
  <2> QED BY <2>3 DEF e
<1>4. Render(items) = FlattenSeq(t)
  <2>1. Render(items) = FlattenSeq([k \in 1..Len(items) |-> w(k)])
    BY DEF Render
  <2> HIDE DEF w, items
  <2> QED BY <1>3, <2>1
<1> HIDE DEF ps, N, items
<1>5. ASSUME NEW k \in 1..N
      PROVE  w(k) \in Seq(Tokens) /\ p(k) \in Seq(Tokens) /\ Same(Tokens, w(k), p(k))
  <2> DEFINE x == RenderItem(items[k])
             y == ps[k]
             e == <<",">>
  <2>1. x \in Seq(Tokens) /\ y \in Seq(Tokens) /\ Same(Tokens, x, y) /\ e \in Seq(Tokens)
    <3>1. y \in Seq(Tokens) /\ IsItem(y)
      BY <1>2
    <3>2. x = RenderItem(ItemOf(y))
      BY <1>3
    <3> HIDE DEF y, x
    <3>3. x \in Seq(Tokens) /\ Same(Tokens, x, y)
      BY <3>1, <3>2, ItemWritten
    <3> QED BY <3>1, <3>3, OneBracket
  <2>2. w(k) = IF k = 1 THEN x ELSE e \o x
    OBVIOUS
  <2>3. p(k) = IF k = 1 THEN y ELSE e \o y
    OBVIOUS
  <2> HIDE DEF x, y, e, w, p
  <2>4. e \o x \in Seq(Tokens) /\ e \o y \in Seq(Tokens)
    BY <2>1
  <2>5. Same(Tokens, e \o x, e \o y)
    BY <2>1, SameItself, SameJoined
  <2> QED BY <2>1, <2>2, <2>3, <2>4, <2>5
<1>6. t \in Seq(Seq(Tokens)) /\ Len(t) = N /\ Len(r) = N
      /\ \A k \in 1..N : t[k] = w(k) /\ r[k] = p(k)
  <2> DEFINE V == Seq(Tokens)
  <2>1. \A k \in 1..N : w(k) \in V
    BY <1>5
  <2> HIDE DEF V, w, p
  <2>2. t \in [1..N -> V]
    BY <2>1
  <2>3. t \in Seq(V) /\ Len(t) = N
    BY <1>1, <2>2, FunctionIsSeq
  <2>4. Len(r) = N
    BY <1>1
  <2> QED BY <2>3, <2>4 DEF V
<1>7. Same(Tokens, FlattenSeq(t), s)
  <2>1. \A k \in 1..Len(t) : Same(Tokens, t[k], r[k])
    BY <1>5, <1>6
  <2> HIDE DEF t, r
  <2>2. Same(Tokens, FlattenSeq(t), FlattenSeq(r))
    BY <1>1, <1>6, <2>1, SameFlattened
  <2> QED BY <1>1, <2>2
<1>8. FlattenSeq(t) \in Seq(Tokens)
  <2> HIDE DEF t
  <2> QED BY <1>6, Flattened
<1> HIDE DEF t, r, w, p
<1>9. Alike(<<>> \o FlattenSeq(t), <<>> \o s)
  <2>1. <<>> \in Seq(Tokens)
    OBVIOUS
  <2> QED BY <1>7, <2>1 DEF Same
<1>10. <<>> \o FlattenSeq(t) = FlattenSeq(t) /\ <<>> \o s = s
  BY <1>8, ConcatEmptySeq
<1> QED BY <1>4, <1>9, <1>10 DEF Alike, items

-----------------------------------------------------------------------------
(* The specification.                                                       *)

\* Of each item of a constraint that was parsed: at most one hyperslab, which is
\* not empty, with slices of one to three numbers.
ItemTyped(item) ==
    /\ item.struct \in BOOLEAN
    /\ Len(item.slab) <= 1
    /\ \A slab \in ToSet(item.slab) :
          slab # <<>> /\ \A slice \in ToSet(slab) : Len(slice) \in 1..3

LEMMA ItemIsTyped ==
  ASSUME NEW v \in Seq(Tokens), IsItem(v)
  PROVE  ItemTyped(ItemOf(v))
<1> DEFINE i == Find(v, ".")
           text == SlabText(v)
           h == HyperslabOf(text)
           slab == IF Bracket(v) = 0 THEN <<>> ELSE <<h>>
<1>1. ItemOf(v).struct \in BOOLEAN
  BY DEF ItemOf
<1>2. ItemOf(v).slab = slab
  BY DEF ItemOf
<1>3. CASE Bracket(v) = 0
  <2>1. slab = <<>>
    BY <1>3
  <2>2. Len(<<>>) = 0 /\ ToSet(<<>>) = {}
    BY DEF ToSet
  <2> HIDE DEF slab
  <2> QED BY <1>1, <1>2, <2>1, <2>2 DEF ItemTyped
<1>4. CASE Bracket(v) # 0
  <2>1. slab = <<h>>
    BY <1>4
  <2>2. IsHyperslab(text)
    BY <1>4 DEF IsItem
  <2>3. text \in Seq(Tokens)
    <3> DEFINE w == Inner(v)
               b == Find(w, "[")
    <3>1. w \in Seq(Tokens)
      <4>1. i \in 0..Len(v) /\ Len(v) \in Nat
        BY FindIs
      <4>2. w = SubSeq(v, i + 1, Len(v))
        BY DEF Inner
      <4> HIDE DEF i, w
      <4>3. \A j \in (i + 1)..Len(v) : v[j] \in Tokens
        BY <4>1
      <4> QED BY <4>1, <4>2, <4>3, SubSeqProperties
    <3>2. b \in 0..Len(w) /\ b # 0
      <4>1. b = Bracket(v)
        BY DEF Bracket
      <4> HIDE DEF w
      <4>2. b \in 0..Len(w)
        BY <3>1, FindIs
      <4> QED BY <1>4, <4>1, <4>2
    <3>3. text = SubSeq(w, b, Len(w))
      BY DEF SlabText, Bracket
    <3> HIDE DEF text, b, w
    <3>4. b \in 1..Len(w)
      BY <3>2
    <3> QED BY <3>1, <3>3, <3>4, FoundParts
  <2> HIDE DEF text
  <2> DEFINE q == Slabs(text)
             M == Len(q)
             slice(d) == SliceOf(Tail(q[d]))
  <2>4. /\ q \in Seq(Seq(Tokens)) /\ M >= 1
        /\ \A d \in 1..M : Tail(q[d]) \in Seq(Tokens) /\ IsSlice(Tail(q[d]))
    BY <2>2, <2>3, SlabsAre
  <2>5. M \in Nat
    <3> HIDE DEF q
    <3> QED BY <2>4
  <2>6. h = [d \in 1..M |-> slice(d)]
    BY DEF HyperslabOf
  <2>7. \A d \in 1..M : Len(slice(d)) \in 1..3
    <3> HIDE DEF q, M
    <3> QED BY <2>4, SliceLength
  <2> HIDE DEF h, M, slice
  <2>8. h # <<>> /\ \A x \in ToSet(h) : Len(x) \in 1..3
    <3>1. Len(h) = M /\ DOMAIN h = 1..M /\ \A d \in 1..M : h[d] = slice(d)
      BY <2>5, <2>6
    <3>2. h # <<>>
      <4>1. Len(<<>>) = 0
        OBVIOUS
      <4>2. M # 0
        BY <2>4, <2>5
      <4> QED BY <3>1, <4>1, <4>2
    <3>3. \A x \in ToSet(h) : Len(x) \in 1..3
      BY <2>7, <3>1 DEF ToSet
    <3> QED BY <3>2, <3>3
  <2>9. Len(<<h>>) = 1 /\ ToSet(<<h>>) = {h}
    BY DEF ToSet
  <2> HIDE DEF slab
  <2>10. Len(slab) <= 1 /\ \A x \in ToSet(slab) : x = h
    BY <2>1, <2>9
  <2> QED BY <1>1, <1>2, <2>8, <2>10 DEF ItemTyped
<1> QED BY <1>3, <1>4

LEMMA ParsedIsTyped ==
  ASSUME NEW s \in Seq(Tokens), Accepted(s)
  PROVE  \A item \in ToSet(Parse(s)) : ItemTyped(item)
<1> DEFINE ps == Split(s, ",")
           N == Len(ps)
           e(k) == ItemOf(ps[k])
<1>1. N \in Nat /\ ps \in Seq(Seq(Tokens))
  BY Brackets, SplitJoined
<1>2. \A k \in 1..N : ps[k] \in Seq(Tokens) /\ IsItem(ps[k])
  <2> DEFINE V == Seq(Tokens)
  <2>1. ps \in Seq(V)
    BY <1>1
  <2>2. \A x \in ToSet(ps) : IsItem(x)
    BY DEF Accepted
  <2> HIDE DEF V, ps
  <2>3. DOMAIN ps = 1..N
    BY <2>1
  <2>4. \A k \in 1..N : ps[k] \in ToSet(ps)
    BY <2>3 DEF ToSet
  <2>5. \A k \in 1..N : ps[k] \in V
    BY <2>1, ElementOfSeq
  <2> QED BY <2>2, <2>4, <2>5 DEF V
<1>3. \A k \in 1..N : ItemTyped(e(k))
  <2> HIDE DEF ps, N
  <2> QED BY <1>2, ItemIsTyped
<1>4. Parse(s) = [k \in 1..N |-> e(k)]
  BY DEF Parse
<1> HIDE DEF ps, N, e
<1>5. DOMAIN Parse(s) = 1..N /\ \A k \in 1..N : Parse(s)[k] = e(k)
  BY <1>4
<1> QED BY <1>3, <1>5 DEF ToSet

\* Every slice that reaches the handlers has one to three numbers, and every
\* hyperslab has a slice: count_slab does not panic and v[0] is there
\* (hyperslab.rs:17, dds.rs:156), however long the query.
THEOREM TypeCorrect == Spec => []TypeOK
<1>1. Init => TypeOK
  BY DEF Init, TypeOK, ToSet
<1>2. TypeOK /\ [Next]_vars => TypeOK'
  <2> SUFFICES ASSUME TypeOK, [Next]_vars PROVE TypeOK'
    OBVIOUS
  <2>1. CASE ParseQuery
    <3>1. query \in Seq(Tokens) /\ Accepted(query)
      BY <2>1, TokensAssumption DEF ParseQuery, Understood, TypeOK
    <3>2. \A item \in ToSet(Parse(query)) : ItemTyped(item)
      BY <3>1, ParsedIsTyped
    <3> QED BY <2>1, <3>2 DEF ParseQuery, TypeOK, ItemTyped
  <2>2. CASE FallBack
    <3>1. ToSet(<<>>) = {}
      BY DEF ToSet
    <3> QED BY <2>2, <3>1 DEF FallBack, TypeOK
  <2>3. CASE UNCHANGED vars
    BY <2>3 DEF vars, TypeOK
  <2> QED BY <2>1, <2>2, <2>3 DEF Next
<1> QED BY <1>1, <1>2, PTL DEF Spec

\* A query that is accepted means what it says, however many items, slabs and
\* numbers it has: the chain of find, split and strip_prefix (constraint.rs:51-75,
\* hyperslab.rs:36-51) loses and moves nothing but repeated closing brackets.
THEOREM AcceptedMeans == OneNumeral => (Spec => []AcceptedMeansWhatItSays)
<1> SUFFICES ASSUME OneNumeral PROVE Spec => []AcceptedMeansWhatItSays
  OBVIOUS
<1> DEFINE Inv == query \in Queries /\ AcceptedMeansWhatItSays
<1>1. Init => Inv
  BY DEF Init, AcceptedMeansWhatItSays
<1>2. Inv /\ [Next]_vars => Inv'
  <2> SUFFICES ASSUME Inv, [Next]_vars PROVE Inv'
    OBVIOUS
  <2>1. CASE ParseQuery
    <3>1. query \in Seq(Tokens) /\ Accepted(query)
      BY <2>1, TokensAssumption DEF ParseQuery, Understood
    <3>2. ForgiveBrackets(Render(Parse(query))) = ForgiveBrackets(query)
      BY <3>1, QueryWritten
    <3> QED BY <2>1, <3>2 DEF ParseQuery, AcceptedMeansWhatItSays
  <2>2. CASE FallBack
    BY <2>2 DEF FallBack, AcceptedMeansWhatItSays
  <2>3. CASE UNCHANGED vars
    BY <2>3 DEF vars, AcceptedMeansWhatItSays
  <2> QED BY <2>1, <2>2, <2>3 DEF Next
<1>3. Inv => AcceptedMeansWhatItSays
  OBVIOUS
<1> QED BY <1>1, <1>2, <1>3, PTL DEF Spec

-----------------------------------------------------------------------------
(* Splitting what was joined.                                               *)

Free(s, sep) == \A i \in 1..Len(s) : s[i] # sep

\* One more number above all others comes at the end.
LEMMA OneMoreNumber ==
  ASSUME NEW S \in SUBSET Nat, IsFiniteSet(S), NEW n \in Nat, \A x \in S : x < n
  PROVE  Ascending(S \cup {n}) = Append(Ascending(S), n)
<1> DEFINE id == [i \in Nat |-> i]
           U == S \cup {n}
<1>1. ASSUME NEW X \in SUBSET Nat, IsFiniteSet(X) PROVE AtPlaces(id, X) = Ascending(X)
  <2> DEFINE N == Cardinality(X)
             c == Ascending(X)
  <2>1. c = [k \in 1..N |-> c[k]] /\ \A k \in 1..N : c[k] \in X
    BY <1>1, AscendingIs
  <2>2. AtPlaces(id, X) = [k \in 1..N |-> id[c[k]]]
    BY DEF AtPlaces
  <2> HIDE DEF N, c
  <2>3. \A k \in 1..N : id[c[k]] = c[k]
    BY <2>1
  <2> HIDE DEF id
  <2> QED BY <2>1, <2>2, <2>3 DEF c
<1>2. U \in SUBSET Nat /\ IsFiniteSet(U)
  <2>1. IsFiniteSet(U)
    BY FS_AddElement
  <2> QED BY <2>1
<1>3. AtPlaces(id, U) = Append(AtPlaces(id, S), id[n])
  <2> HIDE DEF id
  <2> QED BY OneMorePlace
<1>4. id[n] = n
  OBVIOUS
<1> HIDE DEF id, U
<1>5. AtPlaces(id, U) = Ascending(U) /\ AtPlaces(id, S) = Ascending(S)
  BY <1>1, <1>2
<1> QED BY <1>3, <1>4, <1>5 DEF U

\* Without a separator there is one piece.
LEMMA SplitWhole ==
  ASSUME NEW T, NEW x \in Seq(T), NEW sep, Free(x, sep)
  PROVE  Split(x, sep) = <<x>>
<1> DEFINE ps == Split(x, sep)
           N == Len(ps)
<1>1. PICK c : CutAt(x, sep, ps, c)
  BY SplitIs
<1>2. /\ N \in Nat /\ N >= 1 /\ ps = [k \in 1..N |-> ps[k]]
      /\ c[1] = 0 /\ c[N + 1] = Len(x) + 1
      /\ \A k \in 2..N : c[k] \in 1..Len(x) /\ x[c[k]] = sep
      /\ \A k \in 1..N : ps[k] = SubSeq(x, c[k] + 1, c[k + 1] - 1)
  BY <1>1 DEF CutAt
<1> HIDE DEF N, ps
<1>3. N = 1
  <2>1. ASSUME N # 1 PROVE FALSE
    <3>1. 2 \in 2..N
      BY <1>2, <2>1
    <3> QED BY <1>2, <3>1 DEF Free
  <2> QED BY <2>1
<1>4. ps[1] = x
  <2>1. Len(x) \in Nat
    OBVIOUS
  <2>2. 1 \in 1..N /\ 1 + 1 = N + 1 /\ c[1] + 1 = 1 /\ c[1 + 1] - 1 = Len(x)
    BY <1>2, <1>3, <2>1
  <2>3. ps[1] = SubSeq(x, 1, Len(x))
    BY <1>2, <2>2
  <2> QED BY <2>3, SubSeqFull
<1>5. ps = [k \in 1..1 |-> ps[k]]
  BY <1>2, <1>3
<1>6. \A k \in 1..1 : k = 1
  OBVIOUS
<1>7. ps = [k \in 1..1 |-> x]
  BY <1>4, <1>5, <1>6
<1>8. [k \in 1..1 |-> x] = <<x>>
  OBVIOUS
<1> QED BY <1>7, <1>8 DEF ps

\* Behind one more separator there is one more piece.
LEMMA SplitMore ==
  ASSUME NEW T, NEW s \in Seq(T), NEW x \in Seq(T), NEW sep \in T, Free(x, sep)
  PROVE  Split(s \o (<<sep>> \o x), sep) = Append(Split(s, sep), x)
<1> DEFINE t == s \o (<<sep>> \o x)
           m == Len(s)
           n == Len(t) + 1
           A == {i \in 1..m : s[i] = sep}
           B == {i \in 1..Len(t) : t[i] = sep}
           S == {0, m + 1} \cup A
           U == {0, Len(t) + 1} \cup B
           c == Ascending(S)
           d == Ascending(U)
           M == Cardinality(S)
<1>1. /\ t \in Seq(T) /\ m \in Nat /\ Len(x) \in Nat /\ Len(t) = m + 1 + Len(x)
      /\ t[m + 1] = sep /\ \A i \in 1..m : t[i] = s[i]
      /\ \A i \in 1..Len(x) : t[m + 1 + i] = x[i]
  <2> DEFINE y == <<sep>> \o x
  <2>1. y \in Seq(T) /\ Len(y) = 1 + Len(x) /\ y[1] = sep /\ \A i \in 1..Len(x) : y[1 + i] = x[i]
    OBVIOUS
  <2> HIDE DEF y
  <2>2. s \o y \in Seq(T) /\ Len(s \o y) = m + Len(y) /\ \A i \in 1..m : (s \o y)[i] = s[i]
    <3>1. y \in Seq(T) /\ m \in Nat /\ Len(y) \in Nat
      BY <2>1
    <3>2. /\ s \o y \in Seq(T) /\ Len(s \o y) = m + Len(y)
          /\ \A i \in 1..(m + Len(y)) : (s \o y)[i] = IF i <= m THEN s[i] ELSE y[i - m]
      BY <3>1, ConcatProperties
    <3>3. \A i \in 1..m : i \in 1..(m + Len(y)) /\ i <= m
      BY <3>1
    <3> QED BY <3>2, <3>3
  <2>3. \A i \in 1..Len(y) : (s \o y)[m + i] = y[i]
    <3> SUFFICES ASSUME NEW i \in 1..Len(y) PROVE (s \o y)[m + i] = y[i]
      OBVIOUS
    <3>1. y \in Seq(T) /\ m \in Nat /\ m + i \in 1..(m + Len(y)) /\ ~(m + i <= m) /\ (m + i) - m = i
      BY <2>1
    <3> QED BY <3>1, ConcatProperties
  <2>4. m \in Nat /\ Len(x) \in Nat
    OBVIOUS
  <2>5. \A i \in 1..Len(x) : 1 + i \in 1..Len(y) /\ m + (1 + i) = m + 1 + i
    BY <2>1, <2>4
  <2>6. 1 \in 1..Len(y)
    BY <2>1, <2>4
  <2>7. t = s \o y
    BY DEF y
  <2> HIDE DEF t, m
  <2>8. \A i \in 1..Len(x) : t[m + 1 + i] = x[i]
    BY <2>1, <2>3, <2>5, <2>7
  <2>9. t[m + 1] = sep
    BY <2>1, <2>3, <2>6, <2>7
  <2>10. Len(t) = m + 1 + Len(x)
    BY <2>1, <2>2, <2>4, <2>7
  <2> QED BY <2>2, <2>4, <2>7, <2>8, <2>9, <2>10
<1> HIDE DEF t
<1>2. U = S \cup {n}
  <2> HIDE DEF m
  <2>1. ASSUME NEW i \in 1..Len(t) PROVE t[i] = sep <=> i = m + 1 \/ (i \in 1..m /\ s[i] = sep)
    <3>1. i \in 1..m \/ i = m + 1 \/ (i - (m + 1) \in 1..Len(x) /\ m + 1 + (i - (m + 1)) = i)
      BY <1>1
    <3>2. CASE i \in 1..m
      <4>1. i # m + 1
        BY <1>1, <3>2
      <4> QED BY <1>1, <3>2, <4>1
    <3>3. CASE i = m + 1
      BY <1>1, <3>3
    <3>4. CASE i - (m + 1) \in 1..Len(x) /\ m + 1 + (i - (m + 1)) = i
      <4>1. t[i] = x[i - (m + 1)]
        BY <1>1, <3>4
      <4>2. t[i] # sep
        BY <3>4, <4>1 DEF Free
      <4>3. i # m + 1 /\ i \notin 1..m
        BY <1>1, <3>4
      <4> QED BY <4>2, <4>3
    <3> QED BY <3>1, <3>2, <3>3, <3>4
  <2>2. m + 1 \in 1..Len(t) /\ \A i \in 1..m : i \in 1..Len(t)
    BY <1>1
  <2>3. B = A \cup {m + 1}
    BY <2>1, <2>2
  <2> HIDE DEF A, B
  <2> QED BY <2>3
<1>3. S \in SUBSET Nat /\ IsFiniteSet(S) /\ \A i \in S : i < n
  <2>1. S \in SUBSET (0..(m + 1))
    BY <1>1
  <2>2. IsFiniteSet(0..(m + 1))
    BY <1>1, FS_Interval
  <2> DEFINE Z == 0..(m + 1)
  <2>3. Z \subseteq Nat /\ \A i \in Z : i < n
    BY <1>1
  <2> HIDE DEF S, Z
  <2>4. IsFiniteSet(S)
    BY <2>1, <2>2, FS_Subset DEF Z
  <2> QED BY <2>1, <2>3, <2>4 DEF Z
<1>4. n \in Nat
  BY <1>1
<1>5. d = Append(c, n)
  <2> HIDE DEF S, U, n
  <2> QED BY <1>2, <1>3, <1>4, OneMoreNumber
<1>6. /\ M \in Nat /\ c = [k \in 1..M |-> c[k]] /\ Len(c) = M
      /\ \A k \in 1..M : c[k] \in S
      /\ \A j, k \in 1..M : c[j] <= c[k] <=> j <= k
      /\ \A i \in S : \E k \in 1..M : c[k] = i
  <2> HIDE DEF S
  <2> QED BY <1>3, AscendingIs
<1>7. 0 \in S /\ m + 1 \in S /\ \A i \in S : i \in 0..(m + 1)
  BY <1>1
<1>8. /\ Split(s, sep) = [k \in 1..(Len(c) - 1) |-> SubSeq(s, c[k] + 1, c[k + 1] - 1)]
      /\ Split(t, sep) = [k \in 1..(Len(d) - 1) |-> SubSeq(t, d[k] + 1, d[k + 1] - 1)]
  BY DEF Split
<1> DEFINE N == M - 1
           p(k) == SubSeq(s, c[k] + 1, c[k + 1] - 1)
           q(k) == SubSeq(t, d[k] + 1, d[k + 1] - 1)
<1> HIDE DEF S, U, A, B, c, d, M
<1>9. M >= 2 /\ c[M] = m + 1
  <2>1. PICK k \in 1..M : c[k] = m + 1
    BY <1>6, <1>7
  <2>2. PICK j \in 1..M : c[j] = 0
    BY <1>6, <1>7
  <2>3. j # k
    BY <1>1, <2>1, <2>2
  <2>4. M >= 2 /\ M \in 1..M
    BY <1>6, <2>3
  <2>5. c[M] \in 0..(m + 1)
    BY <1>6, <1>7, <2>4
  <2>6. c[M] <= c[k]
    BY <1>1, <2>1, <2>5
  <2>7. M <= k
    BY <1>6, <2>4, <2>6
  <2>8. M = k
    BY <1>6, <2>7
  <2> QED BY <2>1, <2>4, <2>8
<1>10. Len(d) = M + 1 /\ d[M + 1] = n /\ \A k \in 1..M : d[k] = c[k]
  <2>1. c \in Seq(Nat)
    <3>1. \A k \in 1..M : c[k] \in Nat
      BY <1>3, <1>6
    <3>2. c \in [1..M -> Nat]
      BY <1>6, <3>1
    <3> QED BY <1>6, <3>2
  <2> HIDE DEF n
  <2> QED BY <1>4, <1>5, <1>6, <2>1
<1>11. \A k \in 1..N : q(k) = p(k)
  <2> SUFFICES ASSUME NEW k \in 1..N PROVE q(k) = p(k)
    OBVIOUS
  <2>1. k \in 1..M /\ k + 1 \in 1..M
    BY <1>6
  <2>2. d[k] = c[k] /\ d[k + 1] = c[k + 1] /\ c[k] \in 0..(m + 1) /\ c[k + 1] \in 0..(m + 1)
    BY <1>6, <1>7, <1>10, <2>1
  <2> DEFINE a == c[k] + 1
             b == c[k + 1] - 1
  <2>3. a \in Nat /\ a >= 1 /\ b \in Int /\ b <= m
    BY <1>1, <2>2, SMTT(40)
  <2>4. q(k) = SubSeq(t, a, b) /\ p(k) = SubSeq(s, a, b)
    BY <2>2
  <2> HIDE DEF a, b, q, p
  <2>5. \A i \in a..b : i \in 1..m
    BY <1>1, <2>3
  <2>6. SubSeq(t, a, b) = SubSeq(s, a, b)
    <3>1. \A i \in a..b : t[i] = s[i] /\ s[i] \in T /\ t[i] \in T
      BY <1>1, <2>5
    <3>2. /\ SubSeq(s, a, b) \in Seq(T) /\ SubSeq(t, a, b) \in Seq(T)
          /\ Len(SubSeq(s, a, b)) = (IF a <= b THEN b - a + 1 ELSE 0)
          /\ Len(SubSeq(t, a, b)) = (IF a <= b THEN b - a + 1 ELSE 0)
          /\ \A i \in 1..(b - a + 1) : SubSeq(s, a, b)[i] = s[a + i - 1] /\ SubSeq(t, a, b)[i] = t[a + i - 1]
      BY <2>3, <3>1, SubSeqProperties
    <3>3. \A i \in 1..(b - a + 1) : a + i - 1 \in a..b
      BY <2>3
    <3> QED BY <2>3, <3>1, <3>2, <3>3, SeqEqual
  <2> QED BY <2>4, <2>6
<1>12. q(M) = x
  <2>1. M \in 1..M
    BY <1>6, <1>9
  <2>2. d[M] + 1 = m + 2 /\ d[M + 1] - 1 = Len(t)
    BY <1>1, <1>9, <1>10, <2>1
  <2>3. q(M) = SubSeq(t, m + 2, Len(t))
    BY <2>2
  <2> HIDE DEF q
  <2>4. SubSeq(t, m + 2, Len(t)) = x
    <3>1. \A i \in (m + 2)..Len(t) : t[i] \in T
      BY <1>1
    <3>2. /\ SubSeq(t, m + 2, Len(t)) \in Seq(T)
          /\ Len(SubSeq(t, m + 2, Len(t))) = Len(x)
          /\ \A i \in 1..Len(x) : SubSeq(t, m + 2, Len(t))[i] = t[m + 2 + i - 1]
      <4>1. m + 2 \in Int /\ Len(t) \in Int /\ Len(t) - (m + 2) + 1 = Len(x)
            /\ (IF m + 2 <= Len(t) THEN Len(t) - (m + 2) + 1 ELSE 0) = Len(x)
        BY <1>1
      <4> HIDE DEF m
      <4> QED BY <3>1, <4>1, SubSeqProperties
    <3>3. \A i \in 1..Len(x) : m + 2 + i - 1 = m + 1 + i
      BY <1>1
    <3> QED BY <1>1, <3>2, <3>3, SeqEqual, SMTT(40)
  <2> QED BY <2>3, <2>4
<1>13. N \in Nat /\ N + 1 = M
  BY <1>6, <1>9
<1>14. Split(s, sep) = [k \in 1..N |-> p(k)] /\ Split(t, sep) = [k \in 1..(N + 1) |-> q(k)]
  <2>1. Len(c) - 1 = N /\ Len(d) - 1 = N + 1
    BY <1>6, <1>10, <1>13
  <2> QED BY <1>8, <2>1
<1> HIDE DEF p, q, N
<1>15. [k \in 1..(N + 1) |-> q(k)] = Append([k \in 1..N |-> p(k)], x)
  <2> DEFINE V == {p(k) : k \in 1..N} \cup {x}
             u == [k \in 1..N |-> p(k)]
             v == Append(u, x)
  <2>1. u \in [1..N -> V] /\ x \in V /\ \A k \in 1..N : u[k] = p(k)
    OBVIOUS
  <2> HIDE DEF V, u
  <2>2. u \in Seq(V) /\ Len(u) = N
    BY <1>13, <2>1
  <2>3. v \in Seq(V) /\ Len(v) = N + 1 /\ v[N + 1] = x /\ \A k \in 1..N : v[k] = u[k]
    BY <2>1, <2>2
  <2>5. \A k \in 1..(N + 1) : k \in 1..N \/ k = N + 1
    BY <1>13
  <2> HIDE DEF v
  <2>4. v = [k \in 1..(N + 1) |-> v[k]]
    <3>1. v = [k \in 1..Len(v) |-> v[k]]
      BY <2>3
    <3> QED BY <2>3, <3>1
  <2>6. \A k \in 1..(N + 1) : v[k] = q(k)
    BY <1>11, <1>12, <1>13, <2>1, <2>3, <2>5
  <2> QED BY <2>4, <2>6 DEF v, u
<1> QED BY <1>14, <1>15 DEF t


\* Pieces without a separator, joined and split again.
LEMMA SplitBack ==
  ASSUME NEW T, NEW ps \in Seq(Seq(T)), Len(ps) # 0, NEW sep \in T,
         \A k \in 1..Len(ps) : Free(ps[k], sep)
  PROVE  /\ Between(ps, sep) \in Seq(Seq(T))
         /\ FlattenSeq(Between(ps, sep)) \in Seq(T)
         /\ Split(FlattenSeq(Between(ps, sep)), sep) = ps
<1> DEFINE V == Seq(T)
           N == Len(ps)
           r == Between(ps, sep)
           e(k) == IF k = 1 THEN ps[k] ELSE <<sep>> \o ps[k]
<1>1. N \in Nat /\ N # 0 /\ \A k \in 1..N : ps[k] \in Seq(T)
  <2>1. ps \in Seq(V)
    OBVIOUS
  <2> HIDE DEF V
  <2>2. N \in Nat /\ \A k \in 1..N : ps[k] \in V
    BY <2>1
  <2> QED BY <2>2 DEF V
<1>2. r = [k \in 1..N |-> e(k)]
  BY DEF Between
<1>3. ASSUME NEW k \in 1..N PROVE e(k) \in V
  <2>1. ps[k] \in Seq(T)
    BY <1>1
  <2>2. <<sep>> \o ps[k] \in Seq(T)
    BY <2>1
  <2> QED BY <2>1, <2>2
<1>4. r \in Seq(V) /\ Len(r) = N /\ \A k \in 1..N : r[k] = e(k)
  <2> HIDE DEF V, e, r, N
  <2>1. r \in [1..N -> V]
    BY <1>2, <1>3
  <2> QED BY <1>1, <1>2, <2>1, FunctionIsSeq
<1> HIDE DEF r
<1>5. PICK f : /\ FlattenSeq(r) = f[N] /\ f[1] = r[1]
               /\ \A i \in 2..N : f[i] = f[i - 1] \o r[i]
  <2>1. Len(r) # 0
    BY <1>1, <1>4
  <2>2. \E f : Flattening(r, f)
    BY <1>4, <2>1, FlattenSteps
  <2> QED BY <1>4, <2>2 DEF Flattening
<1> DEFINE Done(n) == f[n] \in Seq(T) /\ Split(f[n], sep) = SubSeq(ps, 1, n)
           P == {n \in Nat : n + 1 \in 1..N => Done(n + 1)}
<1>6. 0 \in P
  <2> SUFFICES ASSUME 1 \in 1..N PROVE Done(1)
    OBVIOUS
  <2> DEFINE x == ps[1]
  <2>1. f[1] = x /\ x \in Seq(T) /\ Free(x, sep)
    BY <1>1, <1>4, <1>5
  <2> HIDE DEF x
  <2>2. Split(x, sep) = <<x>>
    BY <2>1, SplitWhole
  <2>3. SubSeq(ps, 1, 1) = <<x>>
    <3>1. ps \in Seq(V) /\ 1 \in 1..Len(ps)
      OBVIOUS
    <3> HIDE DEF V
    <3> DEFINE z == SubSeq(ps, 1, 1)
    <3>2. ps[1] \in V
      BY <3>1
    <3>3. z \in Seq(V) /\ Len(z) = 1 /\ z[1] = ps[1]
      <4>1. \A i \in 1..1 : ps[i] \in V
        BY <3>2
      <4>2. /\ z \in Seq(V) /\ Len(z) = (IF 1 <= 1 THEN 1 - 1 + 1 ELSE 0)
            /\ \A i \in 1..(1 - 1 + 1) : z[i] = ps[1 + i - 1]
        BY <4>1, SubSeqProperties
      <4> HIDE DEF z
      <4> QED BY <4>2
    <3> HIDE DEF z
    <3>4. <<ps[1]>> \in Seq(V) /\ Len(<<ps[1]>>) = 1 /\ <<ps[1]>>[1] = ps[1]
      BY <3>2
    <3>5. \A i \in 1..1 : i = 1
      OBVIOUS
    <3>6. z = <<ps[1]>>
      <4> DEFINE y == <<ps[1]>>
      <4>1. y \in Seq(V) /\ Len(y) = Len(z) /\ \A i \in 1..Len(z) : z[i] = y[i]
        BY <3>3, <3>4, <3>5
      <4> HIDE DEF y
      <4>2. z = y
        BY <3>3, <4>1, SeqEqual
      <4> QED BY <4>2 DEF y
    <3> QED BY <3>6 DEF x, z
  <2> QED BY <2>1, <2>2, <2>3
<1>7. ASSUME NEW n \in Nat, n \in P PROVE n + 1 \in P
  <2> SUFFICES ASSUME n + 2 \in 1..N PROVE Done(n + 2)
    OBVIOUS
  <2> DEFINE x == ps[n + 2]
             g == f[n + 1]
  <2>1. n + 1 \in 1..N /\ n + 2 \in 2..N /\ (n + 2) - 1 = n + 1 /\ n + 2 # 1
    BY <1>1
  <2>2. g \in Seq(T) /\ Split(g, sep) = SubSeq(ps, 1, n + 1)
    BY <1>7, <2>1
  <2>3. x \in Seq(T) /\ Free(x, sep)
    BY <1>1
  <2>4. f[n + 2] = g \o (<<sep>> \o x)
    BY <1>4, <1>5, <2>1
  <2>5. g \o (<<sep>> \o x) \in Seq(T)
    <3> HIDE DEF g, x
    <3> QED BY <2>2, <2>3
  <2>6. Split(g \o (<<sep>> \o x), sep) = Append(SubSeq(ps, 1, n + 1), x)
    <3> HIDE DEF g, x
    <3>1. Split(g \o (<<sep>> \o x), sep) = Append(Split(g, sep), x)
      BY <2>2, <2>3, SplitMore
    <3> QED BY <2>2, <3>1
  <2>7. Append(SubSeq(ps, 1, n + 1), ps[n + 2]) = SubSeq(ps, 1, n + 2)
    <3>1. ps \in Seq(V) /\ n + 2 \in 1..Len(ps) /\ n + 1 \in 0..Len(ps) /\ 1 \in 1..(n + 2)
      BY <2>1
    <3> HIDE DEF V
    <3>2. SubSeq(ps, 1, n + 1) \in Seq(V) /\ ps[n + 2] \in V
      BY <3>1
    <3>3. SubSeq(ps, 1, n + 2) = SubSeq(ps, 1, (n + 2) - 1) \o <<ps[n + 2]>>
      BY <3>1, SubSeqRecursiveSecond
    <3>4. Append(SubSeq(ps, 1, n + 1), ps[n + 2]) = SubSeq(ps, 1, n + 1) \o <<ps[n + 2]>>
      BY <3>2, AppendIsConcat
    <3> QED BY <2>1, <3>3, <3>4
  <2> QED BY <2>4, <2>5, <2>6, <2>7
<1> HIDE DEF P
<1>8. Nat \subseteq P
  BY <1>6, <1>7, SetInduction
<1>9. Done(N)
  <2>1. N - 1 \in Nat /\ (N - 1) + 1 = N /\ N \in 1..N
    BY <1>1
  <2>2. N - 1 \in P
    BY <1>8, <2>1
  <2> HIDE DEF Done, N
  <2> QED BY <2>1, <2>2 DEF P
<1>10. SubSeq(ps, 1, N) = ps
  <2>1. ps \in Seq(V)
    OBVIOUS
  <2> HIDE DEF V
  <2> QED BY <2>1, SubSeqFull
<1> QED BY <1>4, <1>5, <1>9, <1>10 DEF r

\* g is these pieces, all of them closed.
SplitsAs(g, pieces) ==
    /\ g \in Seq(Tokens)
    /\ \A x \in Seq(Tokens) : Free(x, "]") => Split(g \o x, "]") = Append(pieces, x)

LEMMA OneMoreClosed ==
  ASSUME NEW g, NEW p \in Seq(Tokens), NEW r, Free(p, "]"), SplitsAs(g, r)
  PROVE  SplitsAs(g \o (p \o <<"]">>), Append(r, p))
<1> DEFINE e == <<"]">>
<1>5. g \in Seq(Tokens) /\ \A x \in Seq(Tokens) : Free(x, "]") => Split(g \o x, "]") = Append(r, x)
  BY DEF SplitsAs
<1>1. e \in Seq(Tokens) /\ "]" \in Tokens
  BY OneBracket, Brackets
<1> HIDE DEF e
<1>2. p \o e \in Seq(Tokens) /\ g \o p \in Seq(Tokens)
  BY <1>1, <1>5, ConcatProperties
<1>3. g \o (p \o e) \in Seq(Tokens)
  BY <1>2, <1>5, ConcatProperties
<1>4. ASSUME NEW x \in Seq(Tokens), Free(x, "]")
      PROVE  Split((g \o (p \o e)) \o x, "]") = Append(Append(r, p), x)
  <2>1. (g \o (p \o e)) \o x = (g \o p) \o (e \o x)
    <3>1. (g \o (p \o e)) \o x = g \o ((p \o e) \o x)
      <4> DEFINE y == p \o e
      <4>1. y \in Seq(Tokens)
        BY <1>2
      <4> HIDE DEF y
      <4>2. (g \o y) \o x = g \o (y \o x)
        BY <1>5, <4>1, ConcatAssociative, SMTT(40)
      <4> QED BY <4>2 DEF y
    <3>2. (p \o e) \o x = p \o (e \o x)
      BY <1>1, ConcatAssociative
    <3>3. e \o x \in Seq(Tokens)
      BY <1>1, ConcatProperties
    <3>4. (g \o p) \o (e \o x) = g \o (p \o (e \o x))
      <4> DEFINE y == e \o x
      <4>1. y \in Seq(Tokens)
        BY <3>3
      <4> HIDE DEF y
      <4>2. (g \o p) \o y = g \o (p \o y)
        BY <1>5, <4>1, ConcatAssociative
      <4> QED BY <4>2 DEF y
    <3> QED BY <3>1, <3>2, <3>4
  <2>2. Split((g \o p) \o (<<"]">> \o x), "]") = Append(Split(g \o p, "]"), x)
    BY <1>1, <1>2, <1>4, SplitMore
  <2>3. Split(g \o p, "]") = Append(r, p)
    BY <1>5
  <2> QED BY <2>1, <2>2, <2>3 DEF e
<1> QED BY <1>3, <1>4 DEF e, SplitsAs

\* Pieces that are all closed by a bracket, and what follows the last of them.
LEMMA SplitClosed ==
  ASSUME NEW q \in Seq(Seq(Tokens)), \A k \in 1..Len(q) : Free(q[k], "]")
  PROVE  /\ FlattenSeq(Closed(q)) \in Seq(Tokens)
         /\ Split(FlattenSeq(Closed(q)), "]") = Append(q, <<>>)
<1> DEFINE V == Seq(Tokens)
           N == Len(q)
           u(n) == SubSeq(q, 1, n)
           G(n) == FlattenSeq(Closed(u(n)))
           Done(n) == SplitsAs(G(n), u(n))
           P == {n \in Nat : n \in 0..N => Done(n)}
<1>1. q \in Seq(V) /\ N \in Nat /\ \A n \in 0..N : u(n) \in Seq(V) /\ Len(u(n)) = n
  <2>1. q \in Seq(V)
    OBVIOUS
  <2> HIDE DEF V
  <2> QED BY <2>1
<1>2. ASSUME NEW n \in Nat, n + 1 \in 0..N
      PROVE  q[n + 1] \in V /\ Free(q[n + 1], "]") /\ u(n + 1) = Append(u(n), q[n + 1])
  <2> HIDE DEF V
  <2>1. n + 1 \in 1..N /\ n \in 0..N /\ (n + 1) - 1 = n /\ 1 \in 1..(n + 1)
    BY <1>1, <1>2
  <2>2. q[n + 1] \in V /\ Free(q[n + 1], "]")
    BY <1>1, <2>1
  <2>3. u(n + 1) = u(n) \o <<q[n + 1]>>
    BY <1>1, <2>1, SubSeqRecursiveSecond
  <2>4. u(n) \in Seq(V)
    BY <1>1, <2>1
  <2> HIDE DEF u
  <2>5. Append(u(n), q[n + 1]) = u(n) \o <<q[n + 1]>>
    BY <2>2, <2>4, AppendIsConcat
  <2> QED BY <2>2, <2>3, <2>5
<1>3. 0 \in P
  <2>1. u(0) = <<>>
    <3>1. u(0) \in Seq(V) /\ Len(u(0)) = 0
      BY <1>1
    <3> HIDE DEF u, V
    <3> QED BY <3>1
  <2>2. G(0) = <<>>
    <3>1. Closed(<<>>) = <<>>
      BY DEF Closed
    <3>2. FlattenSeq(<<>>) = <<>>
      BY DEF FlattenSeq
    <3> QED BY <2>1, <3>1, <3>2
  <2>3. <<>> \in V
    OBVIOUS
  <2> HIDE DEF G, u
  <2>4. ASSUME NEW x \in V, Free(x, "]") PROVE Split(G(0) \o x, "]") = Append(u(0), x)
    <3>1. G(0) \o x = x
      BY <2>2, ConcatEmptySeq
    <3>2. Split(x, "]") = <<x>>
      BY <2>4, SplitWhole
    <3>3. Append(<<>>, x) = <<x>>
      OBVIOUS
    <3> QED BY <2>1, <3>1, <3>2, <3>3
  <2> QED BY <2>2, <2>3, <2>4 DEF SplitsAs
<1>4. ASSUME NEW n \in Nat, n \in P PROVE n + 1 \in P
  <2> SUFFICES ASSUME n + 1 \in 0..N PROVE Done(n + 1)
    OBVIOUS
  <2> DEFINE p == q[n + 1]
             g == G(n)
  <2>1. n \in 0..N
    BY <1>1
  <2>2. SplitsAs(g, u(n))
    BY <1>4, <2>1
  <2>3. p \in V /\ Free(p, "]") /\ u(n + 1) = Append(u(n), p)
    BY <1>2
  <2>4. u(n) \in Seq(V)
    BY <1>1, <2>1
  <2>6. G(n + 1) = g \o (p \o <<"]">>)
    <3> HIDE DEF p, u
    <3> QED BY <2>3, <2>4, ClosedMore
  <2> HIDE DEF u, p, g, G
  <2>7. SplitsAs(g \o (p \o <<"]">>), Append(u(n), p))
    <3> DEFINE r == u(n)
    <3>1. p \in Seq(Tokens) /\ Free(p, "]") /\ SplitsAs(g, r)
      BY <2>2, <2>3
    <3> HIDE DEF r
    <3>2. SplitsAs(g \o (p \o <<"]">>), Append(r, p))
      BY <3>1, OneMoreClosed
    <3> QED BY <3>2 DEF r
  <2> QED BY <2>3, <2>6, <2>7
<1> HIDE DEF P
<1>5. Nat \subseteq P
  BY <1>3, <1>4, SetInduction
<1>6. Done(N)
  <2>1. N \in 0..N
    BY <1>1
  <2> HIDE DEF Done, N
  <2> QED BY <1>5, <2>1 DEF P
<1>7. u(N) = q
  <2> HIDE DEF V
  <2> QED BY <1>1, SubSeqFull
<1>8. <<>> \in V /\ Free(<<>>, "]")
  BY DEF Free
<1>9. G(N) \o <<>> = G(N)
  <2>1. G(N) \in Seq(Tokens)
    BY <1>6 DEF SplitsAs
  <2> HIDE DEF G
  <2> QED BY <2>1, ConcatEmptySeq
<1> HIDE DEF u
<1>10. Split(G(N) \o <<>>, "]") = Append(u(N), <<>>)
  <2> HIDE DEF G
  <2> QED BY <1>6, <1>8 DEF SplitsAs
<1>11. G(N) \in Seq(Tokens)
  BY <1>6 DEF SplitsAs
<1> QED BY <1>7, <1>9, <1>10, <1>11

\* The two parts of a concatenation.
LEMMA PartsOfConcat ==
  ASSUME NEW T, NEW u \in Seq(T), NEW y \in Seq(T)
  PROVE  /\ SubSeq(u \o y, 1, Len(u)) = u
         /\ SubSeq(u \o y, Len(u) + 1, Len(u \o y)) = y
<1> DEFINE s == u \o y
           n == Len(u)
           a == SubSeq(s, 1, n)
           b == SubSeq(s, n + 1, Len(s))
<1>1. /\ n \in Nat /\ Len(y) \in Nat /\ s \in Seq(T) /\ Len(s) = n + Len(y)
      /\ \A i \in 1..(n + Len(y)) : s[i] = IF i <= n THEN u[i] ELSE y[i - n]
  BY ConcatProperties
<1>2. u \in Seq(T) /\ y \in Seq(T)
  OBVIOUS
<1> HIDE DEF s
<1>3. \A i \in 1..Len(s) : s[i] \in T
  BY <1>1
<1>4. a \in Seq(T) /\ Len(a) = n /\ \A i \in 1..n : a[i] = s[i]
  <2>1. \A i \in 1..n : s[i] \in T
    BY <1>1, <1>3
  <2>2. (IF 1 <= n THEN n - 1 + 1 ELSE 0) = n /\ n - 1 + 1 = n /\ 1 \in Int /\ n \in Int
    BY <1>1
  <2>3. /\ a \in Seq(T) /\ Len(a) = (IF 1 <= n THEN n - 1 + 1 ELSE 0)
        /\ \A i \in 1..(n - 1 + 1) : a[i] = s[1 + i - 1]
    BY <1>1, <2>1, <2>2, SubSeqProperties
  <2>4. \A i \in 1..n : 1 + i - 1 = i
    OBVIOUS
  <2> HIDE DEF a, n
  <2> QED BY <2>2, <2>3, <2>4
<1>5. b \in Seq(T) /\ Len(b) = Len(y) /\ \A i \in 1..Len(y) : b[i] = s[n + i]
  <2>1. \A i \in (n + 1)..Len(s) : s[i] \in T
    BY <1>1, <1>3
  <2>2. /\ (IF n + 1 <= Len(s) THEN Len(s) - (n + 1) + 1 ELSE 0) = Len(y)
        /\ Len(s) - (n + 1) + 1 = Len(y) /\ n + 1 \in Int /\ Len(s) \in Int
    BY <1>1
  <2>3. /\ b \in Seq(T) /\ Len(b) = (IF n + 1 <= Len(s) THEN Len(s) - (n + 1) + 1 ELSE 0)
        /\ \A i \in 1..(Len(s) - (n + 1) + 1) : b[i] = s[n + 1 + i - 1]
    BY <1>1, <2>1, <2>2, SubSeqProperties
  <2>4. \A i \in 1..Len(y) : n + 1 + i - 1 = n + i
    BY <1>1
  <2> HIDE DEF b, n
  <2> QED BY <2>2, <2>3, <2>4
<1> HIDE DEF a, b
<1>6. a = u
  <2>1. \A i \in 1..n : i \in 1..(n + Len(y)) /\ i <= n
    BY <1>1
  <2> QED BY <1>1, <1>2, <1>4, <2>1, SeqEqual
<1>7. b = y
  <2>1. \A i \in 1..Len(y) : n + i \in 1..(n + Len(y)) /\ ~(n + i <= n) /\ (n + i) - n = i
    BY <1>1
  <2> QED BY <1>1, <1>2, <1>5, <2>1, SeqEqual
<1> QED BY <1>6, <1>7 DEF a, b, s

\* Where a separator is found first, or not at all: the first sep of t comes behind u, and w follows.
FoundAt(t, sep, u, w) ==
    /\ t \in Seq(Tokens) /\ Find(t, sep) = Len(u) + 1
    /\ SubSeq(t, 1, Len(u)) = u /\ SubSeq(t, Len(u) + 2, Len(t)) = w
    /\ SubSeq(t, Len(u) + 1, Len(t)) = <<sep>> \o w

LEMMA FoundFirst ==
  ASSUME NEW u \in Seq(Tokens), NEW sep \in Tokens, NEW w \in Seq(Tokens), Free(u, sep)
  PROVE  FoundAt(u \o (<<sep>> \o w), sep, u, w)
<1> DEFINE s == u \o (<<sep>> \o w)
           n == Len(u)
           S == {i \in 1..Len(s) : s[i] = sep}
           y == <<sep>> \o w
<1>1. y \in Seq(Tokens) /\ Len(y) = 1 + Len(w) /\ y[1] = sep /\ Tail(y) = w
  OBVIOUS
<1> HIDE DEF y
<1>2. /\ n \in Nat /\ Len(w) \in Nat /\ s = u \o y
      /\ s \in Seq(Tokens) /\ Len(s) = n + Len(y)
      /\ \A i \in 1..(n + Len(y)) : s[i] = IF i <= n THEN u[i] ELSE y[i - n]
  <2>1. s = u \o y
    BY DEF y
  <2>2. /\ u \o y \in Seq(Tokens) /\ Len(u \o y) = n + Len(y)
        /\ \A i \in 1..(n + Len(y)) : (u \o y)[i] = IF i <= n THEN u[i] ELSE y[i - n]
    <3> DEFINE z == u \o y
    <3>1. /\ z \in Seq(Tokens) /\ Len(z) = Len(u) + Len(y)
          /\ \A i \in 1..(Len(u) + Len(y)) : z[i] = IF i <= Len(u) THEN u[i] ELSE y[i - Len(u)]
      <4>1. \A a, b \in Seq(Tokens) :
              /\ a \o b \in Seq(Tokens) /\ Len(a \o b) = Len(a) + Len(b)
              /\ \A i \in 1..(Len(a) + Len(b)) : (a \o b)[i] = IF i <= Len(a) THEN a[i] ELSE b[i - Len(a)]
        BY ConcatProperties
      <4>2. u \in Seq(Tokens) /\ y \in Seq(Tokens)
        BY <1>1
      <4> QED BY <4>1, <4>2, Zenon
    <3> QED BY <3>1
  <2>3. n \in Nat /\ Len(w) \in Nat
    OBVIOUS
  <2> HIDE DEF s, n
  <2> QED BY <2>1, <2>2, <2>3
<1> HIDE DEF s
<1>3. n + 1 \in S /\ \A i \in S : n + 1 <= i
  <2>1. n + 1 \in 1..Len(s) /\ ~(n + 1 <= n) /\ (n + 1) - n = 1
    BY <1>1, <1>2
  <2>2. s[n + 1] = sep
    BY <1>1, <1>2, <2>1
  <2>3. ASSUME NEW i \in 1..Len(s), s[i] = sep PROVE n + 1 <= i
    <3>1. CASE i <= n
      <4>1. s[i] = u[i] /\ i \in 1..n
        BY <1>2, <3>1
      <4> QED BY <2>3, <4>1 DEF Free
    <3>2. CASE ~(i <= n)
      BY <1>2, <3>2
    <3> QED BY <3>1, <3>2
  <2> QED BY <2>1, <2>2, <2>3
<1>4. Find(s, sep) = n + 1
  <2>1. Find(s, sep) = IF S # {} THEN Min(S) ELSE 0
    BY DEF Find, SelectInSeq
  <2>2. S \subseteq Nat
    OBVIOUS
  <2> HIDE DEF S
  <2>3. Min(S) \in S /\ \A i \in S : Min(S) <= i
    BY <1>3 DEF Min
  <2> DEFINE a == Min(S)
  <2>4. a \in Nat /\ a <= n + 1 /\ n + 1 <= a
    BY <1>3, <2>2, <2>3
  <2> HIDE DEF a, n
  <2>5. a = n + 1
    BY <1>2, <2>4
  <2> QED BY <1>3, <2>1, <2>5 DEF a
<1>5. SubSeq(s, 1, n) = u /\ SubSeq(s, n + 1, Len(s)) = y
  BY <1>1, <1>2, PartsOfConcat
<1>6. SubSeq(s, n + 2, Len(s)) = w
  <2> DEFINE v == u \o <<sep>>
  <2>1. v \in Seq(Tokens) /\ Len(v) = n + 1 /\ v \o w = u \o (<<sep>> \o w)
    OBVIOUS
  <2> HIDE DEF v
  <2>2. SubSeq(v \o w, Len(v) + 1, Len(v \o w)) = w
    BY <2>1, PartsOfConcat
  <2>3. v \o w = s
    BY <1>2, <2>1 DEF y
  <2>4. Len(v) + 1 = n + 2
    BY <1>2, <2>1
  <2> QED BY <2>2, <2>3, <2>4
<1>7. FoundAt(s, sep, u, w)
  BY <1>2, <1>4, <1>5, <1>6 DEF y, FoundAt
<1> QED BY <1>7 DEF s

LEMMA FoundNowhere ==
  ASSUME NEW s \in Seq(Tokens), NEW sep, Free(s, sep)
  PROVE  Find(s, sep) = 0
<1> DEFINE S == {i \in 1..Len(s) : s[i] = sep}
<1>1. Find(s, sep) = IF S # {} THEN Min(S) ELSE 0
  BY DEF Find, SelectInSeq
<1>2. S = {}
  BY DEF Free
<1> QED BY <1>1, <1>2


\* A slice that is written down is read again.
LEMMA SliceBack ==
  ASSUME NEW slice \in Seq(Nat), Len(slice) \in 1..3,
         \A k \in 1..Len(slice) : \E t \in Numerals : Value[t] = slice[k]
  PROVE  \E b \in Seq(Numerals \cup {":"}) :
            /\ Len(b) >= 1 /\ IsSlice(b) /\ SliceOf(b) = slice
            /\ RenderSlice(slice) = (<<"[">> \o b) \o <<"]">>
<1> DEFINE T == Numerals \cup {":"}
           V == Seq(T)
           N == Len(slice)
           num(k) == Numeral(slice[k])
           ps == [k \in 1..N |-> <<num(k)>>]
           b == FlattenSeq(Between(ps, ":"))
           e(k) == IF k = 1 THEN <<num(k)>> ELSE <<":", num(k)>>
           r == [k \in 1..N |-> e(k)]
<1>1. ASSUME NEW k \in 1..N
      PROVE  num(k) \in Numerals /\ Value[num(k)] = slice[k]
  <2>1. \E t \in Numerals : Value[t] = slice[k]
    OBVIOUS
  <2> QED BY <2>1 DEF Numeral
<1>2. N \in Nat /\ N >= 1 /\ N <= 3 /\ slice = [k \in 1..N |-> slice[k]]
  <2>1. slice \in Seq(Nat) /\ Len(slice) \in 1..3
    OBVIOUS
  <2>2. N \in Nat /\ N >= 1 /\ N <= 3
    <3>1. N \in 1..3
      OBVIOUS
    <3> HIDE DEF N
    <3> QED BY <3>1
  <2>3. slice = [k \in 1..Len(slice) |-> slice[k]]
    BY <2>1
  <2> QED BY <2>2, <2>3
<1>3. ":" \in T /\ ":" \notin Numerals
  BY TokensAssumption DEF Separators
<1> HIDE DEF num
<1>4. ASSUME NEW k \in 1..N PROVE <<num(k)>> \in V /\ Free(<<num(k)>>, ":")
  <2>1. num(k) \in T /\ num(k) # ":"
    BY <1>1, <1>3
  <2>2. <<num(k)>> \in Seq(T)
    BY <2>1, OneToken
  <2>3. Len(<<num(k)>>) = 1 /\ <<num(k)>>[1] = num(k) /\ \A i \in 1..1 : i = 1
    OBVIOUS
  <2> QED BY <2>1, <2>2, <2>3 DEF Free
<1>5. ps \in Seq(V) /\ Len(ps) = N /\ \A k \in 1..N : ps[k] = <<num(k)>>
  <2> HIDE DEF V, N
  <2>1. ps \in [1..N -> V]
    BY <1>4
  <2> QED BY <1>2, <2>1, FunctionIsSeq
<1> HIDE DEF ps
<1>6. b \in V /\ Split(b, ":") = ps
  <2>1. Len(ps) # 0 /\ \A k \in 1..Len(ps) : Free(ps[k], ":")
    <3>1. Len(ps) # 0 /\ Len(ps) = N
      BY <1>2, <1>5
    <3> HIDE DEF N
    <3> QED BY <1>4, <1>5, <3>1
  <2>2. ps \in Seq(Seq(T))
    BY <1>5
  <2> HIDE DEF T, N
  <2> QED BY <1>3, <2>1, <2>2, SplitBack
<1>7. r = Between(ps, ":")
  <2> DEFINE g(k) == IF k = 1 THEN ps[k] ELSE <<":">> \o ps[k]
  <2>1. Between(ps, ":") = [k \in 1..N |-> g(k)]
    BY <1>5 DEF Between
  <2>2. ASSUME NEW k \in 1..N PROVE g(k) = e(k)
    <3>1. ps[k] = <<num(k)>>
      BY <1>5
    <3>2. <<":">> \o <<num(k)>> = <<":", num(k)>>
      BY OneByOne
    <3> QED BY <3>1, <3>2
  <2> HIDE DEF g, e
  <2> QED BY <2>1, <2>2
<1>8. RenderSlice(slice) = (<<"[">> \o b) \o <<"]">>
  <2>1. RenderSlice(slice) = <<"[">> \o FlattenSeq(r) \o <<"]">>
    BY DEF RenderSlice, num
  <2> HIDE DEF r
  <2> QED BY <1>7, <2>1
<1> HIDE DEF b
<1>9. IsSlice(b)
  <2>1. ASSUME NEW h \in ToSet(ps) PROVE Len(h) = 1 /\ h[1] \in Numerals
    <3>1. DOMAIN ps = 1..N
      BY <1>2, <1>5
    <3>2. PICK k \in 1..N : h = ps[k]
      BY <3>1 DEF ToSet
    <3>3. h = <<num(k)>> /\ num(k) \in Numerals
      BY <1>1, <1>5, <3>2
    <3> QED BY <3>3
  <2>2. Len(ps) <= 3
    BY <1>2, <1>5
  <2> QED BY <1>6, <2>1, <2>2 DEF IsSlice
<1>10. SliceOf(b) = slice
  <2> DEFINE g(k) == Value[ps[k][1]]
  <2>1. SliceOf(b) = [k \in 1..N |-> g(k)]
    BY <1>5, <1>6 DEF SliceOf
  <2>2. ASSUME NEW k \in 1..N PROVE g(k) = slice[k]
    <3>1. ps[k] = <<num(k)>> /\ Value[num(k)] = slice[k]
      BY <1>1, <1>5
    <3>2. ps[k][1] = num(k)
      BY <3>1
    <3> QED BY <3>1, <3>2
  <2> HIDE DEF g, N
  <2> QED BY <1>2, <2>1, <2>2
<1>11. Len(b) >= 1
  <2>1. Len(b) \in Nat
    BY <1>6
  <2>2. ASSUME Len(b) = 0 PROVE FALSE
    <3>1. b = <<>>
      BY <1>6, <2>2
    <3>2. Free(b, ":")
      BY <2>2 DEF Free
    <3>3. Split(b, ":") = <<b>>
      <4> HIDE DEF T
      <4> QED BY <1>6, <3>2, SplitWhole
    <3>4. ps[1] = b
      BY <1>6, <3>3
    <3>5. ps[1] = <<num(1)>>
      <4>1. 1 \in 1..N
        BY <1>2
      <4> QED BY <1>5, <4>1
    <3>6. Len(ps[1]) = 0 /\ Len(ps[1]) = 1
      <4>1. Len(<<num(1)>>) = 1
        OBVIOUS
      <4> QED BY <2>2, <3>4, <3>5, <4>1
    <3> QED BY <3>6
  <2> QED BY <2>1, <2>2
<1> QED BY <1>6, <1>8, <1>9, <1>10, <1>11

\* All places from the first on.
LEMMA FirstPlaces ==
  ASSUME NEW n \in Nat, NEW s
  PROVE  AtPlaces(s, 1..n) = [k \in 1..n |-> s[k]]
<1> DEFINE S == 1..n
           c == Ascending(S)
           N == Cardinality(S)
<1>1. S \in SUBSET Nat /\ IsFiniteSet(S) /\ N = n
  BY FS_Interval
<1>2. \A k \in 1..N : \A x \in S : Cardinality({j \in S : j <= x}) = k => c[k] = x
  <2> HIDE DEF S
  <2> QED BY <1>1, AscendingIs
<1>3. ASSUME NEW k \in 1..n PROVE c[k] = k
  <2>1. {j \in S : j <= k} = 1..k
    OBVIOUS
  <2>2. Cardinality(1..k) = k
    BY FS_Interval
  <2>3. k \in S /\ k \in 1..N
    BY <1>1
  <2>4. Cardinality({j \in S : j <= k}) = k
    BY <2>1, <2>2
  <2> HIDE DEF S, c, N
  <2> QED BY <1>2, <2>3, <2>4
<1>4. AtPlaces(s, S) = [k \in 1..N |-> s[c[k]]]
  BY DEF AtPlaces
<1> HIDE DEF c, N
<1>5. AtPlaces(s, S) = [k \in 1..n |-> s[k]]
  <2> HIDE DEF S
  <2> QED BY <1>1, <1>3, <1>4
<1> QED BY <1>5

Readable(slice) ==
    /\ Len(slice) \in 1..3
    /\ \A k \in 1..Len(slice) : \E t \in Numerals : Value[t] = slice[k]

\* What hyperslabs are made of.
SlabTokens == Numerals \cup {":", "[", "]"}

LEMMA SlabTokensAre ==
  /\ SlabTokens \subseteq Tokens /\ Seq(SlabTokens) \subseteq Seq(Tokens)
  /\ Seq(Numerals \cup {":"}) \subseteq Seq(SlabTokens)
  /\ "," \notin SlabTokens /\ "." \notin SlabTokens
  /\ "[" \notin Numerals \cup {":"} /\ "]" \notin Numerals \cup {":"}
<1>1. SlabTokens \subseteq Tokens /\ Numerals \cup {":"} \subseteq SlabTokens
  BY DEF SlabTokens, Tokens, Separators
<1>2. ASSUME NEW S, NEW T, S \subseteq T PROVE Seq(S) \subseteq Seq(T)
  BY <1>2
<1>3. "," \notin SlabTokens /\ "." \notin SlabTokens
  BY TokensAssumption DEF SlabTokens, Separators
<1>4. "[" \notin Numerals \cup {":"} /\ "]" \notin Numerals \cup {":"}
  BY TokensAssumption DEF Separators
<1>5. Seq(SlabTokens) \subseteq Seq(Tokens)
  BY <1>1, <1>2
<1>6. Seq(Numerals \cup {":"}) \subseteq Seq(SlabTokens)
  BY <1>1, <1>2
<1> QED BY <1>1, <1>3, <1>4, <1>5, <1>6

LEMMA FreeOf ==
  ASSUME NEW T, NEW s \in Seq(T), NEW sep, sep \notin T
  PROVE  Free(s, sep)
BY DEF Free

LEMMA FreeJoined ==
  ASSUME NEW T, NEW s \in Seq(T), NEW t \in Seq(T), NEW sep, Free(s, sep), Free(t, sep)
  PROVE  Free(s \o t, sep)
<1>1. /\ Len(s \o t) = Len(s) + Len(t) /\ Len(s) \in Nat /\ Len(t) \in Nat
      /\ \A i \in 1..(Len(s) + Len(t)) : (s \o t)[i] = IF i <= Len(s) THEN s[i] ELSE t[i - Len(s)]
  BY ConcatProperties
<1>2. \A i \in 1..(Len(s) + Len(t)) : i \in 1..Len(s) \/ (~(i <= Len(s)) /\ i - Len(s) \in 1..Len(t))
  BY <1>1
<1>3. \A i \in 1..Len(s) : i <= Len(s)
  BY <1>1
<1> QED BY <1>1, <1>2, <1>3 DEF Free

\* A hyperslab of N dimensions as it is written.
RenderSlab(h, N) == FlattenSeq([d \in 1..N |-> RenderSlice(h[d])])

\* A hyperslab that is written down is read again.
LEMMA SlabBack ==
  ASSUME NEW N \in Nat, N # 0, NEW h, h = [d \in 1..N |-> h[d]],
         \A d \in 1..N : h[d] \in Seq(Nat) /\ Readable(h[d]),
         NEW text, text = RenderSlab(h, N)
  PROVE  /\ text \in Seq(SlabTokens) /\ IsHyperslab(text) /\ HyperslabOf(text) = h
         /\ \E w \in Seq(Tokens) : text = <<"[">> \o w
<1> DEFINE B == Seq(Numerals \cup {":"})
           Body(d, b) == /\ Len(b) >= 1 /\ IsSlice(b) /\ SliceOf(b) = h[d]
                         /\ RenderSlice(h[d]) = (<<"[">> \o b) \o <<"]">>
           body(d) == CHOOSE b \in B : Body(d, b)
           q == [d \in 1..N |-> <<"[">> \o body(d)]
           ps == Append(q, <<>>)
           V == Seq(Tokens)
           W == Seq(SlabTokens)
<1>1. ASSUME NEW d \in 1..N PROVE body(d) \in B /\ Body(d, body(d))
  <2>1. \E b \in B : Body(d, b)
    <3>1. h[d] \in Seq(Nat) /\ Len(h[d]) \in 1..3
          /\ \A k \in 1..Len(h[d]) : \E t \in Numerals : Value[t] = h[d][k]
      BY DEF Readable
    <3> QED BY <3>1, SliceBack
  <2> HIDE DEF B, Body
  <2> QED BY <2>1
<1> HIDE DEF body
<1>2. ASSUME NEW d \in 1..N
      PROVE  /\ body(d) \in Seq(SlabTokens) /\ Free(body(d), "]")
             /\ <<"[">> \o body(d) \in Seq(SlabTokens)
             /\ Len(<<"[">> \o body(d)) = 1 + Len(body(d)) /\ Len(body(d)) \in Nat
             /\ (<<"[">> \o body(d))[1] = "[" /\ Tail(<<"[">> \o body(d)) = body(d)
             /\ Free(<<"[">> \o body(d), "]")
             /\ RenderSlice(h[d]) = (<<"[">> \o body(d)) \o <<"]">>
             /\ RenderSlice(h[d]) \in Seq(SlabTokens)
  <2> DEFINE b == body(d)
  <2>1. b \in B /\ RenderSlice(h[d]) = (<<"[">> \o b) \o <<"]">>
    BY <1>1
  <2> HIDE DEF b
  <2>2. b \in Seq(SlabTokens)
    BY <2>1, SlabTokensAre
  <2>3. Free(b, "]")
    BY <2>1, SlabTokensAre, FreeOf
  <2>4. "[" \in SlabTokens /\ "]" \in SlabTokens
    BY DEF SlabTokens
  <2> DEFINE x == <<"[">> \o b
  <2>5. /\ x \in Seq(SlabTokens) /\ Len(x) = 1 + Len(b) /\ Len(b) \in Nat
        /\ x[1] = "[" /\ Tail(x) = b
    BY <2>2, <2>4
  <2>6. Free(x, "]")
    <3>1. Free(<<"[">>, "]")
      BY DEF Free
    <3>2. <<"[">> \in Seq(SlabTokens)
      BY <2>4
    <3> QED BY <2>2, <2>3, <3>1, <3>2, FreeJoined
  <2> HIDE DEF x
  <2>7. x \o <<"]">> \in Seq(SlabTokens)
    BY <2>4, <2>5
  <2> QED BY <2>1, <2>2, <2>3, <2>5, <2>6, <2>7 DEF b, x
<1>3. /\ q \in Seq(V) /\ Len(q) = N /\ q = [d \in 1..N |-> q[d]]
      /\ \A d \in 1..N : q[d] = <<"[">> \o body(d)
  <2>1. \A d \in 1..N : <<"[">> \o body(d) \in V
    BY <1>2, SlabTokensAre
  <2> HIDE DEF V
  <2>2. q \in [1..N -> V]
    BY <2>1
  <2>3. q \in Seq(V) /\ Len(q) = N
    <3> HIDE DEF q
    <3> QED BY <2>2, FunctionIsSeq
  <2> QED BY <2>3
<1> HIDE DEF q
<1>4. text = FlattenSeq(Closed(q)) /\ Closed(q) \in Seq(W)
  <2> DEFINE r == [d \in 1..N |-> RenderSlice(h[d])]
  <2>1. Closed(q) = r
    <3> DEFINE f(d) == q[d] \o <<"]">>
               g(d) == RenderSlice(h[d])
    <3>1. Closed(q) = [d \in 1..N |-> f(d)] /\ r = [d \in 1..N |-> g(d)]
      BY <1>3 DEF Closed
    <3>2. \A d \in 1..N : f(d) = g(d)
      BY <1>2, <1>3
    <3> HIDE DEF f, g, r
    <3> QED BY <3>1, <3>2
  <2>2. r \in Seq(W)
    <3>1. \A d \in 1..N : RenderSlice(h[d]) \in W
      BY <1>2
    <3> HIDE DEF W
    <3>2. r \in [1..N -> W]
      BY <3>1
    <3> HIDE DEF r
    <3> QED BY <3>2, FunctionIsSeq
  <2> HIDE DEF r, W
  <2>3. text = FlattenSeq(r)
    BY DEF r, RenderSlab
  <2> QED BY <2>1, <2>2, <2>3
<1>5. text \in Seq(SlabTokens)
  <2>1. Closed(q) \in Seq(Seq(SlabTokens))
    BY <1>4
  <2> QED BY <1>4, <2>1, Flattened
<1>6. \A d \in 1..N : q[d] \in V /\ Free(q[d], "]") /\ q[d] # <<>>
  <2> SUFFICES ASSUME NEW d \in 1..N PROVE q[d] \in V /\ Free(q[d], "]") /\ q[d] # <<>>
    OBVIOUS
  <2> DEFINE x == <<"[">> \o body(d)
  <2>1. x \in V /\ Free(x, "]") /\ Len(x) = 1 + Len(body(d)) /\ Len(body(d)) \in Nat
    BY <1>2, SlabTokensAre
  <2> HIDE DEF x
  <2>2. x # <<>>
    <3>1. Len(x) # 0
      BY <2>1
    <3> QED BY <3>1
  <2>3. q[d] = x
    BY <1>3 DEF x
  <2> QED BY <2>1, <2>2, <2>3
<1>7. Split(text, "]") = ps
  <2>1. q \in Seq(Seq(Tokens))
    BY <1>3
  <2>2. \A k \in 1..Len(q) : Free(q[k], "]")
    BY <1>3, <1>6
  <2> QED BY <1>4, <2>1, <2>2, SplitClosed
<1>8. Slabs(text) = q
  <2>1. ps = [k \in 1..(N + 1) |-> IF k = N + 1 THEN <<>> ELSE q[k]]
    BY <1>3
  <2>2. DOMAIN ps = 1..(N + 1) /\ ps[N + 1] = <<>> /\ \A k \in 1..N : ps[k] = q[k]
    BY <2>1
  <2> HIDE DEF ps
  <2> DEFINE S == {k \in DOMAIN ps : ps[k] # <<>>}
  <2>3. S = 1..N
    <3>1. \A k \in 1..(N + 1) : k \in 1..N \/ k = N + 1
      OBVIOUS
    <3>2. N + 1 \notin 1..N /\ \A k \in 1..N : k \in 1..(N + 1)
      OBVIOUS
    <3> HIDE DEF V
    <3> QED BY <1>6, <2>2, <3>1, <3>2
  <2>4. Slabs(text) = AtPlaces(ps, S)
    BY <1>7 DEF Slabs
  <2> HIDE DEF S
  <2>5. AtPlaces(ps, 1..N) = [k \in 1..N |-> ps[k]]
    BY FirstPlaces
  <2>6. [k \in 1..N |-> ps[k]] = [k \in 1..N |-> q[k]]
    BY <2>2
  <2> QED BY <1>3, <2>3, <2>4, <2>5, <2>6
<1>9. HyperslabOf(text) = h
  <2> DEFINE f(k) == SliceOf(Tail(q[k]))
  <2>1. HyperslabOf(text) = [k \in 1..N |-> f(k)]
    BY <1>3, <1>8 DEF HyperslabOf
  <2>2. \A k \in 1..N : f(k) = h[k]
    BY <1>1, <1>2, <1>3
  <2> HIDE DEF f
  <2>3. HyperslabOf(text) = [k \in 1..N |-> h[k]]
    BY <2>1, <2>2
  <2> QED BY <2>3
<1>10. Len(text) >= 3 /\ text[Len(text)] = "]"
  <2> DEFINE u == SubSeq(q, 1, N - 1)
             p == q[N]
             g == FlattenSeq(Closed(u))
             y == p \o <<"]">>
             b == body(N)
  <2>1. N \in 1..N /\ N - 1 \in 0..N /\ N \in 1..Len(q) /\ 1 \in 1..N
    BY <1>3
  <2>2. p \in V /\ u \in Seq(V) /\ q = Append(u, p)
    <3> HIDE DEF V
    <3>1. p \in V /\ u \in Seq(V) /\ Len(u) = N - 1
      <4>1. \A i \in 1..(N - 1) : q[i] \in V
        BY <1>6
      <4> DEFINE m == N - 1
      <4>2. (IF 1 <= m THEN m - 1 + 1 ELSE 0) = m /\ 1 \in Int /\ m \in Int
        OBVIOUS
      <4>5. \A i \in 1..m : q[i] \in V
        BY <4>1
      <4> HIDE DEF m
      <4>3. SubSeq(q, 1, m) \in Seq(V) /\ Len(SubSeq(q, 1, m)) = (IF 1 <= m THEN m - 1 + 1 ELSE 0)
        BY <1>3, <4>2, <4>5, SubSeqProperties, SMTT(40)
      <4>6. u = SubSeq(q, 1, m)
        BY DEF m
      <4>4. p \in V
        BY <1>6, <2>1
      <4> HIDE DEF u
      <4>7. u \in Seq(V) /\ Len(u) = m
        BY <4>2, <4>3, <4>6
      <4> QED BY <4>4, <4>7 DEF m
    <3>2. SubSeq(q, 1, N) = u \o <<p>>
      BY <1>3, <2>1, SubSeqRecursiveSecond
    <3>3. SubSeq(q, 1, N) = q
      BY <1>3, SubSeqFull
    <3> HIDE DEF u, p
    <3>4. Append(u, p) = u \o <<p>>
      BY <3>1, AppendIsConcat
    <3> QED BY <3>1, <3>2, <3>3, <3>4
  <2>3. Len(p) >= 2 /\ Len(p) \in Nat
    <3>1. p = <<"[">> \o b /\ Len(<<"[">> \o b) = 1 + Len(b) /\ Len(b) \in Nat /\ Len(b) >= 1
      BY <1>1, <1>2, <1>3, <2>1
    <3> HIDE DEF p, b
    <3> QED BY <3>1
  <2>4. Free(p, "]") /\ \A k \in 1..Len(u) : Free(u[k], "]")
    <3>1. Len(u) = N - 1 /\ \A k \in 1..(N - 1) : u[k] = q[k]
      <4> HIDE DEF V
      <4> QED BY <1>3, <2>1
    <3>2. \A k \in 1..(N - 1) : k \in 1..N
      BY <2>1
    <3> HIDE DEF u
    <3> QED BY <1>6, <2>1, <3>1, <3>2
  <2>5. text = g \o y /\ g \in Seq(Tokens)
    <3> HIDE DEF u, p
    <3>1. u \in Seq(Seq(Tokens)) /\ p \in Seq(Tokens)
      BY <2>2
    <3>2. g \in Seq(Tokens)
      BY <2>4, <3>1, SplitClosed
    <3>3. FlattenSeq(Closed(Append(u, p))) = FlattenSeq(Closed(u)) \o (p \o <<"]">>)
      BY <3>1, ClosedMore
    <3> QED BY <1>4, <2>2, <3>2, <3>3
  <2> HIDE DEF u, g, p
  <2>6. y \in Seq(Tokens) /\ Len(y) = Len(p) + 1 /\ y[Len(p) + 1] = "]"
    <3> DEFINE e == <<"]">>
    <3>1. e \in Seq(Tokens) /\ Len(e) = 1 /\ e[1] = "]"
      BY OneBracket
    <3> HIDE DEF e
    <3>2. p \in Seq(Tokens)
      BY <2>2
    <3>3. /\ p \o e \in Seq(Tokens) /\ Len(p \o e) = Len(p) + Len(e)
          /\ \A i \in 1..(Len(p) + Len(e)) : (p \o e)[i] = IF i <= Len(p) THEN p[i] ELSE e[i - Len(p)]
      BY <3>1, <3>2, ConcatProperties
    <3>4. Len(p) + 1 \in 1..(Len(p) + Len(e)) /\ ~(Len(p) + 1 <= Len(p)) /\ (Len(p) + 1) - Len(p) = 1
      BY <2>3, <3>1
    <3> QED BY <3>1, <3>3, <3>4 DEF e
  <2> HIDE DEF y
  <2>7. /\ Len(text) = Len(g) + Len(y) /\ Len(g) \in Nat
        /\ \A i \in 1..(Len(g) + Len(y)) : text[i] = IF i <= Len(g) THEN g[i] ELSE y[i - Len(g)]
    <3>1. /\ Len(g \o y) = Len(g) + Len(y)
          /\ \A i \in 1..(Len(g) + Len(y)) : (g \o y)[i] = IF i <= Len(g) THEN g[i] ELSE y[i - Len(g)]
      BY <2>5, <2>6, ConcatProperties
    <3>2. Len(g) \in Nat
      BY <2>5
    <3> QED BY <2>5, <3>1, <3>2
  <2>8. /\ Len(text) >= 3 /\ Len(text) \in 1..(Len(g) + Len(y))
        /\ ~(Len(text) <= Len(g)) /\ Len(text) - Len(g) = Len(p) + 1
    BY <2>3, <2>6, <2>7
  <2> QED BY <2>6, <2>7, <2>8
<1>11. text[1] = "["
  <2>1. text \in Seq(Tokens)
    BY <1>5, SlabTokensAre
  <2>2. PICK c : CutAt(text, "]", ps, c)
    BY <1>7, <2>1, SplitIs
  <2>3. Len(ps) = N + 1 /\ ps[1] = q[1]
    BY <1>3
  <2> HIDE DEF ps
  <2>4. /\ 1 \in 1..Len(ps) /\ 2 \in 1..(Len(ps) + 1) /\ 1 + 1 = 2
    BY <2>3
  <2>5. c[1] = 0 /\ c[2] \in 0..(Len(text) + 1) /\ ps[1] = SubSeq(text, c[1] + 1, c[1 + 1] - 1)
    BY <2>2, <2>4 DEF CutAt
  <2> DEFINE m == c[2] - 1
  <2>6. m \in Int /\ m <= Len(text) /\ ps[1] = SubSeq(text, 1, m)
    BY <2>1, <2>4, <2>5, SMTT(40)
  <2> HIDE DEF m
  <2>7. ps[1] \in Seq(Tokens) /\ Len(ps[1]) # 0 /\ ps[1][1] = "["
    <3>1. 1 \in 1..N
      BY <2>3
    <3> DEFINE x == <<"[">> \o body(1)
    <3>2. x \in Seq(SlabTokens) /\ x[1] = "[" /\ Len(x) = 1 + Len(body(1)) /\ Len(body(1)) \in Nat
      BY <1>2, <3>1
    <3>3. ps[1] = x
      BY <1>3, <2>3, <3>1
    <3> HIDE DEF x
    <3>4. x \in Seq(Tokens) /\ Len(x) # 0
      <4>1. x \in Seq(Tokens)
        BY <3>2, SlabTokensAre, Zenon
      <4>2. Len(x) # 0
        BY <3>2
      <4> QED BY <4>1, <4>2
    <3> QED BY <3>2, <3>3, <3>4
  <2>8. \A i \in 1..m : text[i] \in Tokens
    BY <2>1, <2>6
  <2>9. /\ Len(SubSeq(text, 1, m)) = (IF 1 <= m THEN m - 1 + 1 ELSE 0)
        /\ \A i \in 1..(m - 1 + 1) : SubSeq(text, 1, m)[i] = text[1 + i - 1]
    BY <2>6, <2>8, SubSeqProperties
  <2>10. 1 \in 1..(m - 1 + 1) /\ 1 + 1 - 1 = 1
    BY <2>6, <2>7, <2>9
  <2> QED BY <2>6, <2>7, <2>9, <2>10
<1>12. \E w \in Seq(Tokens) : text = <<"[">> \o w
  <2>1. text \in Seq(Tokens) /\ 1 \in 1..Len(text)
    <3>1. text \in Seq(Tokens)
      BY <1>5, SlabTokensAre
    <3> QED BY <1>10, <3>1
  <2>2. SubSeq(text, 1 + 1, Len(text)) \in Seq(Tokens)
    BY <2>1, FoundParts
  <2>3. <<text[1]>> \o SubSeq(text, 1 + 1, Len(text)) = SubSeq(text, 1, Len(text))
    <3>1. Len(text) \in 1..Len(text)
      BY <2>1
    <3> QED BY <2>1, <3>1, SubSeqRecursiveFirst
  <2>4. SubSeq(text, 1, Len(text)) = text
    BY <2>1, SubSeqFull
  <2> QED BY <1>11, <2>2, <2>3, <2>4
<1>13. IsHyperslab(text)
  <2>1. ASSUME NEW p \in ToSet(q) PROVE p[1] = "[" /\ IsSlice(Tail(p))
    <3>1. DOMAIN q = 1..N
      BY <1>3
    <3>2. PICK d \in 1..N : p = q[d]
      BY <3>1 DEF ToSet
    <3>3. p = <<"[">> \o body(d)
      BY <1>3, <3>2
    <3>4. IsSlice(body(d)) /\ (<<"[">> \o body(d))[1] = "[" /\ Tail(<<"[">> \o body(d)) = body(d)
      BY <1>1, <1>2
    <3> QED BY <3>3, <3>4
  <2> QED BY <1>8, <1>10, <1>11, <2>1 DEF IsHyperslab
<1> QED BY <1>5, <1>9, <1>12, <1>13

\* An item that is written down is read again.
LEMMA ItemBack ==
  ASSUME NEW item \in Items, Writable(item)
  PROVE  /\ RenderItem(item) \in Seq(Tokens) /\ Free(RenderItem(item), ",")
         /\ IsItem(RenderItem(item)) /\ ItemOf(RenderItem(item)) = item
<1> DEFINE o == item.outer
           n == item.name
           F(x) == FlattenSeq([d \in 1..Len(x) |-> RenderSlice(x[d])])
           rest == FlattenSeq([k \in 1..Len(item.slab) |-> F(item.slab[k])])
           pre == IF item.struct THEN Append(o, ".") ELSE <<>>
           v == RenderItem(item)
           w == n \o rest
<1>1. /\ item = [struct |-> item.struct, outer |-> o, name |-> n, slab |-> item.slab]
      /\ item.struct \in BOOLEAN /\ o \in Seq(Tokens) /\ n \in Seq(Tokens)
  BY DEF Items
<1>0. o \in Seq(Tokens) /\ n \in Seq(Tokens)
  BY <1>1
<1>2. /\ Free(o, ".") /\ Free(o, ",") /\ Free(n, ",") /\ Free(n, "[")
      /\ ~item.struct => o = <<>> /\ Free(n, ".")
  <2>1. \A s \in Seq(Tokens) : DOMAIN s = 1..Len(s)
    OBVIOUS
  <2>2. ASSUME NEW s \in Seq(Tokens), NEW sep, sep \notin ToSet(s) PROVE Free(s, sep)
    BY <2>1, <2>2 DEF ToSet, Free
  <2>3. /\ "." \notin ToSet(o) /\ "," \notin ToSet(o) /\ "," \notin ToSet(n) /\ "[" \notin ToSet(n)
        /\ ~item.struct => o = <<>> /\ "." \notin ToSet(n)
    BY DEF Writable
  <2> HIDE DEF o, n
  <2> QED BY <1>1, <2>2, <2>3
<1>3. \/ item.slab = <<>> /\ rest = <<>>
      \/ \E h : /\ item.slab = <<h>> /\ rest \in Seq(SlabTokens)
                /\ IsHyperslab(rest) /\ HyperslabOf(rest) = h
                /\ \E y \in Seq(Tokens) : rest = <<"[">> \o y
  <2> DEFINE H == Seq(Seq(Nat))
             b == item.slab
  <2>1. b \in Seq(H) /\ Len(b) <= 1
    BY DEF Items, Writable
  <2>2. \A x \in ToSet(b) : x # <<>> /\ \A slice \in ToSet(x) :
           Len(slice) \in 1..3 /\ ToSet(slice) \subseteq {Value[t] : t \in Numerals}
    BY DEF Writable
  <2> HIDE DEF H
  <2>3. Len(b) \in {0, 1}
    <3> HIDE DEF b
    <3> DEFINE z == Len(b)
    <3>1. z \in Nat /\ z <= 1
      BY <2>1
    <3> HIDE DEF z
    <3>2. z \in {0, 1}
      BY <3>1
    <3> QED BY <3>2 DEF z
  <2>4. CASE Len(b) = 0
    <3>1. b = <<>>
      BY <2>1, <2>4
    <3>2. rest = <<>>
      <4>1. [k \in 1..Len(b) |-> F(b[k])] = <<>>
        <5> HIDE DEF F, b
        <5> QED BY <2>4
      <4> QED BY <4>1 DEF FlattenSeq
    <3> QED BY <3>1, <3>2
  <2>5. CASE Len(b) = 1
    <3> DEFINE h == b[1]
    <3>1. h \in H /\ b = <<h>> /\ h \in ToSet(b)
      <4>1. h \in H /\ DOMAIN b = 1..1
        BY <2>1, <2>5
      <4>2. b = <<h>>
        BY <2>1, <2>5
      <4> QED BY <4>1, <4>2 DEF ToSet
    <3> HIDE DEF b
    <3>2. h \in Seq(Seq(Nat)) /\ h # <<>>
      BY <2>2, <3>1 DEF H
    <3>3. \A slice \in ToSet(h) : slice \in Seq(Nat) /\ Readable(slice)
      <4> SUFFICES ASSUME NEW slice \in ToSet(h) PROVE slice \in Seq(Nat) /\ Readable(slice)
        OBVIOUS
      <4> DEFINE S == Seq(Nat)
      <4>1. h \in Seq(S)
        BY <3>2
      <4>2. slice \in S
        <5> HIDE DEF S
        <5> QED BY <4>1 DEF ToSet
      <4>3. Len(slice) \in 1..3 /\ ToSet(slice) \subseteq {Value[t] : t \in Numerals}
        BY <2>2, <3>1
      <4>4. DOMAIN slice = 1..Len(slice)
        BY <4>2
      <4>5. \A k \in 1..Len(slice) : slice[k] \in ToSet(slice)
        BY <4>4 DEF ToSet
      <4>6. \A k \in 1..Len(slice) : \E t \in Numerals : Value[t] = slice[k]
        BY <4>3, <4>5
      <4> QED BY <4>2, <4>3, <4>6, Zenon DEF Readable
    <3> DEFINE N == Len(h)
    <3>4. N \in Nat /\ N # 0 /\ h = [d \in 1..N |-> h[d]]
          /\ \A d \in 1..N : h[d] \in Seq(Nat) /\ Readable(h[d])
      <4> DEFINE S == Seq(Nat)
      <4>1. h \in Seq(S)
        BY <3>2
      <4> HIDE DEF S, h
      <4>2. N \in Nat /\ N # 0 /\ h = [d \in 1..N |-> h[d]] /\ DOMAIN h = 1..N
        BY <3>2, <4>1
      <4>3. \A d \in 1..N : h[d] \in ToSet(h)
        BY <4>2 DEF ToSet
      <4> QED BY <3>3, <4>2, <4>3
    <3> DEFINE text == RenderSlab(h, N)
    <3>5. /\ text \in Seq(SlabTokens) /\ IsHyperslab(text) /\ HyperslabOf(text) = h
          /\ \E y \in Seq(Tokens) : text = <<"[">> \o y
      <4> HIDE DEF h, N
      <4> QED BY <3>4, SlabBack
    <3>6. text = F(h)
      BY DEF RenderSlab
    <3> HIDE DEF text, h, N
    <3>7. rest = text
      <4>1. [k \in 1..Len(b) |-> F(b[k])] = [k \in 1..1 |-> text]
        <5>1. \A k \in 1..1 : b[k] = h
          BY <3>1
        <5> HIDE DEF F
        <5> QED BY <2>5, <3>6, <5>1
      <4>2. rest = FlattenSeq([k \in 1..Len(b) |-> F(b[k])])
        BY DEF b
      <4> HIDE DEF F, rest
      <4>3. FlattenSeq([k \in 1..1 |-> text]) = text
        BY <3>5, FlattenOne
      <4> QED BY <4>1, <4>2, <4>3
    <3> HIDE DEF rest
    <3> QED BY <3>1, <3>5, <3>7 DEF b
  <2> QED BY <2>3, <2>4, <2>5
<1>4. v = (pre \o n) \o rest
  BY DEF RenderItem
<1> HIDE DEF rest, v
<1>5. rest \in Seq(SlabTokens) /\ rest \in Seq(Tokens) /\ Free(rest, ",") /\ Free(rest, ".")
  <2>1. rest \in Seq(SlabTokens)
    <3>1. <<>> \in Seq(SlabTokens)
      OBVIOUS
    <3> QED BY <1>3, <3>1
  <2>2. rest \in Seq(Tokens)
    BY <2>1, SlabTokensAre, Zenon
  <2> QED BY <2>1, <2>2, SlabTokensAre, FreeOf
<1> HIDE DEF o, n
<1>6. w \in Seq(Tokens) /\ Free(w, ",") /\ (~item.struct => Free(w, "."))
  <2>1. w \in Seq(Tokens)
    BY <1>1, <1>5, ConcatProperties
  <2> QED BY <1>1, <1>2, <1>5, <2>1, FreeJoined
<1>7. v = pre \o w /\ v \in Seq(Tokens) /\ Free(v, ",") /\ pre \in Seq(Tokens)
  <2>1. pre \in Seq(Tokens) /\ Free(pre, ",")
    <3>1. CASE item.struct
      <4> DEFINE x == Append(o, ".")
      <4>1. /\ x \in Seq(Tokens) /\ Len(x) = Len(o) + 1 /\ Len(o) \in Nat /\ x[Len(o) + 1] = "."
            /\ \A i \in 1..Len(o) : x[i] = o[i]
        <5>1. "." \in Tokens
          BY Brackets
        <5> QED BY <1>0, <5>1, AppendProperties
      <4>2. \A i \in 1..(Len(o) + 1) : i \in 1..Len(o) \/ i = Len(o) + 1
        BY <4>1
      <4> HIDE DEF x
      <4>3. Free(x, ",")
        BY <1>2, <4>1, <4>2 DEF Free
      <4> QED BY <3>1, <4>1, <4>3 DEF x
    <3>2. CASE ~item.struct
      <4>1. <<>> \in Seq(Tokens) /\ Free(<<>>, ",")
        BY DEF Free
      <4> QED BY <3>2, <4>1
    <3> QED BY <3>1, <3>2
  <2> HIDE DEF pre
  <2>2. v = pre \o w
    <3>1. n \in Seq(Tokens) /\ rest \in Seq(Tokens) /\ pre \in Seq(Tokens)
      BY <1>0, <1>5, <2>1
    <3>2. (pre \o n) \o rest = pre \o (n \o rest)
      BY <3>1, ConcatAssociative
    <3> QED BY <1>4, <3>2
  <2> HIDE DEF w
  <2> QED BY <1>6, <2>1, <2>2, FreeJoined, ConcatProperties
<1>8. Inner(v) = w /\ (Find(v, ".") # 0 <=> item.struct)
      /\ (IF Find(v, ".") = 0 THEN <<>> ELSE SubSeq(v, 1, Find(v, ".") - 1)) = o
  <2>1. CASE item.struct
    <3>1. pre = o \o <<".">>
      <4>1. o \in Seq(Tokens) /\ "." \in Tokens
        BY <1>1, Brackets
      <4> QED BY <2>1, <4>1, AppendIsConcat
    <3> HIDE DEF pre, w
    <3>2. v = o \o (<<".">> \o w)
      <4> DEFINE e == <<".">>
      <4>1. e \in Seq(Tokens)
        BY Brackets, OneToken
      <4> HIDE DEF e
      <4>2. (o \o e) \o w = o \o (e \o w)
        <5>1. o \in Seq(Tokens) /\ w \in Seq(Tokens)
          BY <1>0, <1>6
        <5> QED BY <4>1, <5>1, ConcatAssociative, SMTT(40)
      <4> QED BY <1>7, <3>1, <4>2 DEF e
    <3>3. FoundAt(v, ".", o, w)
      <4>1. "." \in Tokens /\ Free(o, ".") /\ w \in Seq(Tokens)
        BY <1>2, <1>6, Brackets
      <4>2. FoundAt(o \o (<<".">> \o w), ".", o, w)
        BY <1>0, <4>1, FoundFirst
      <4> QED BY <3>2, <4>2
    <3>4. /\ Find(v, ".") = Len(o) + 1 /\ SubSeq(v, 1, Len(o)) = o
          /\ SubSeq(v, Len(o) + 2, Len(v)) = w
      BY <3>3 DEF FoundAt
    <3>5. Len(o) \in Nat /\ Len(o) + 1 # 0 /\ (Len(o) + 1) - 1 = Len(o) /\ (Len(o) + 1) + 1 = Len(o) + 2
      <4>1. Len(o) \in Nat
        BY <1>1
      <4> QED BY <4>1
    <3> QED BY <2>1, <3>4, <3>5 DEF Inner
  <2>2. CASE ~item.struct
    <3>1. pre = <<>>
      BY <2>2
    <3> HIDE DEF pre, w
    <3>2. v = w
      BY <1>6, <1>7, <3>1, ConcatEmptySeq
    <3>3. Find(v, ".") = 0
      BY <1>6, <2>2, <3>2, FoundNowhere
    <3>4. Inner(v) = SubSeq(v, 1, Len(v))
      BY <3>3 DEF Inner
    <3>5. Inner(v) = w
      BY <1>7, <3>2, <3>4, SubSeqFull
    <3> QED BY <1>2, <2>2, <3>3, <3>5
  <2> QED BY <2>1, <2>2
<1>9. /\ IsItem(v)
      /\ (IF Bracket(v) = 0 THEN Inner(v) ELSE SubSeq(Inner(v), 1, Bracket(v) - 1)) = n
      /\ (IF Bracket(v) = 0 THEN <<>> ELSE <<HyperslabOf(SlabText(v))>>) = item.slab
  <2>0. Bracket(v) = Find(w, "[")
    BY <1>8 DEF Bracket
  <2>1. CASE item.slab = <<>> /\ rest = <<>>
    <3>1. w = n
      BY <1>1, <2>1, ConcatEmptySeq
    <3> HIDE DEF w
    <3>2. Bracket(v) = 0
      BY <1>1, <1>2, <2>0, <3>1, FoundNowhere
    <3> QED BY <1>8, <2>1, <3>1, <3>2 DEF IsItem
  <2>2. CASE \E h : /\ item.slab = <<h>> /\ rest \in Seq(SlabTokens)
                    /\ IsHyperslab(rest) /\ HyperslabOf(rest) = h
                    /\ \E y \in Seq(Tokens) : rest = <<"[">> \o y
    <3>1. PICK h : /\ item.slab = <<h>>
                   /\ IsHyperslab(rest) /\ HyperslabOf(rest) = h
                   /\ \E y \in Seq(Tokens) : rest = <<"[">> \o y
      BY <2>2
    <3>2. PICK y \in Seq(Tokens) : rest = <<"[">> \o y
      BY <3>1
    <3>4. w = n \o (<<"[">> \o y)
      BY <3>2
    <3> HIDE DEF w
    <3>3. FoundAt(w, "[", n, y)
      <4>1. "[" \in Tokens /\ Free(n, "[")
        BY <1>2, Brackets
      <4>2. FoundAt(n \o (<<"[">> \o y), "[", n, y)
        BY <1>0, <4>1, FoundFirst
      <4> QED BY <3>4, <4>2
    <3>5. /\ Bracket(v) = Len(n) + 1 /\ SubSeq(w, 1, Len(n)) = n
          /\ SubSeq(w, Len(n) + 1, Len(w)) = rest
      BY <2>0, <3>2, <3>3 DEF FoundAt
    <3>6. Len(n) \in Nat /\ Len(n) + 1 # 0 /\ (Len(n) + 1) - 1 = Len(n)
      <4>1. Len(n) \in Nat
        BY <1>1
      <4> QED BY <4>1
    <3>7. SlabText(v) = rest
      BY <1>8, <3>5 DEF SlabText
    <3> QED BY <1>8, <3>1, <3>5, <3>6, <3>7 DEF IsItem
  <2> QED BY <1>3, <2>1, <2>2
<1>10. ItemOf(v) = item
  <2>1. ItemOf(v) = [struct |-> item.struct, outer |-> o, name |-> n, slab |-> item.slab]
    <3>1. (Find(v, ".") # 0) = item.struct
      BY <1>1, <1>8
    <3> QED BY <1>8, <1>9, <3>1 DEF ItemOf
  <2> QED BY <1>1, <2>1
<1> QED BY <1>7, <1>9, <1>10 DEF v

\* A constraint that is written down is read again.
LEMMA RoundTrip ==
  ASSUME NEW c \in Seq(Items), c # <<>>, \A item \in ToSet(c) : Writable(item)
  PROVE  Accepted(Render(c)) /\ Parse(Render(c)) = c
<1> DEFINE N == Len(c)
           ps == [k \in 1..N |-> RenderItem(c[k])]
           V == Seq(Tokens)
           e(k) == IF k = 1 THEN RenderItem(c[k]) ELSE <<",">> \o RenderItem(c[k])
<1>1. N \in Nat /\ N # 0 /\ DOMAIN c = 1..N /\ c = [k \in 1..N |-> c[k]]
      /\ \A k \in 1..N : c[k] \in Items
  OBVIOUS
<1>2. ASSUME NEW k \in 1..N
      PROVE  /\ RenderItem(c[k]) \in V /\ Free(RenderItem(c[k]), ",")
             /\ IsItem(RenderItem(c[k])) /\ ItemOf(RenderItem(c[k])) = c[k]
  <2>1. c[k] \in Items /\ Writable(c[k])
    BY <1>1 DEF ToSet
  <2> QED BY <2>1, ItemBack
<1>3. ps \in Seq(V) /\ Len(ps) = N /\ DOMAIN ps = 1..N /\ \A k \in 1..N : ps[k] = RenderItem(c[k])
  <2> HIDE DEF V, N
  <2>1. ps \in [1..N -> V]
    BY <1>2
  <2>2. DOMAIN ps = 1..N /\ \A k \in 1..N : ps[k] = RenderItem(c[k])
    OBVIOUS
  <2> HIDE DEF ps
  <2> QED BY <1>1, <2>1, <2>2, FunctionIsSeq
<1>4. Render(c) = FlattenSeq(Between(ps, ","))
  <2> DEFINE g(k) == IF k = 1 THEN ps[k] ELSE <<",">> \o ps[k]
  <2> HIDE DEF ps
  <2>1. Between(ps, ",") = [k \in 1..N |-> g(k)]
    BY <1>3 DEF Between
  <2>2. \A k \in 1..N : g(k) = e(k)
    BY <1>3
  <2>3. Render(c) = FlattenSeq([k \in 1..N |-> e(k)])
    BY DEF Render
  <2> HIDE DEF g, e, N
  <2>4. [k \in 1..N |-> g(k)] = [k \in 1..N |-> e(k)]
    BY <2>2
  <2> QED BY <2>1, <2>3, <2>4
<1> HIDE DEF ps
<1>5. Split(Render(c), ",") = ps
  <2>1. ps \in Seq(Seq(Tokens))
    BY <1>3
  <2>2. Len(ps) # 0 /\ \A k \in 1..Len(ps) : Free(ps[k], ",")
    <3> HIDE DEF N
    <3> QED BY <1>1, <1>2, <1>3
  <2>3. Split(FlattenSeq(Between(ps, ",")), ",") = ps
    BY <2>1, <2>2, Brackets, SplitBack
  <2> QED BY <1>4, <2>3
<1>6. Accepted(Render(c))
  <2>1. ASSUME NEW v \in ToSet(ps) PROVE IsItem(v)
    <3>1. PICK k \in 1..N : v = ps[k]
      BY <1>3 DEF ToSet
    <3> QED BY <1>2, <1>3, <3>1
  <2> QED BY <1>5, <2>1 DEF Accepted
<1>7. Parse(Render(c)) = c
  <2> DEFINE f(k) == ItemOf(ps[k])
  <2>1. Parse(Render(c)) = [k \in 1..N |-> f(k)]
    BY <1>3, <1>5 DEF Parse
  <2>2. \A k \in 1..N : f(k) = c[k]
    BY <1>2, <1>3
  <2> HIDE DEF f, N
  <2>3. Parse(Render(c)) = [k \in 1..N |-> c[k]]
    BY <2>1, <2>2
  <2> QED BY <1>1, <2>3
<1> QED BY <1>6, <1>7

\* A constraint that a client writes down is accepted and is the constraint that
\* the handler gets, however many items, dimensions and numbers it has, as long as
\* no name holds a separator that would end it (constraint.rs:51-75).
THEOREM WrittenUnderstood == Spec => []WrittenIsUnderstood
<1>1. Init => WrittenIsUnderstood
  BY DEF Init, WrittenIsUnderstood
<1>2. WrittenIsUnderstood /\ [Next]_vars => WrittenIsUnderstood'
  <2> SUFFICES ASSUME WrittenIsUnderstood, [Next]_vars PROVE WrittenIsUnderstood'
    OBVIOUS
  <2>1. ASSUME NEW c \in Written PROVE Accepted(Render(c)) /\ Parse(Render(c)) = c
    <3>1. c \in Seq(Items) /\ c # <<>> /\ \A item \in ToSet(c) : Writable(item)
      BY WrittenAssumption
    <3> QED BY <3>1, RoundTrip
  <2>2. CASE ParseQuery
    BY <2>1, <2>2 DEF ParseQuery, WrittenIsUnderstood
  <2>3. CASE FallBack
    BY <2>1, <2>3, WrittenAssumption DEF FallBack, Understood, WrittenIsUnderstood
  <2>4. CASE UNCHANGED vars
    BY <2>4 DEF vars, WrittenIsUnderstood
  <2> QED BY <2>2, <2>3, <2>4 DEF Next
<1> QED BY <1>1, <1>2, PTL DEF Spec
=============================================================================
