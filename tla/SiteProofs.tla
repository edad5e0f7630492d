------------------------------ MODULE SiteProofs ------------------------------
(***************************************************************************)
(* Proofs about Site, for every data directory and every visitor: the      *)
(* types of its state, that every URL of a dataset is answered for that    *)
(* dataset, that a page of the catalog lists each dataset once, and that   *)
(* who follows all links has met every dataset.                            *)
(***************************************************************************)
EXTENDS Site, SumsProofs

-----------------------------------------------------------------------------
(* The keys of the datasets.                                                *)

\* What it takes to begin with another path.
LEMMA Beginnings ==
  ASSUME NEW S, NEW s \in Seq(S), NEW t \in Seq(S)
  PROVE  /\ IsPrefix(s, t) <=> Len(s) <= Len(t) /\ \A i \in 1..Len(s) : s[i] = t[i]
         /\ IsStrictPrefix(s, t) <=> Len(s) < Len(t) /\ \A i \in 1..Len(s) : s[i] = t[i]
<1>1. Len(s) \in Nat /\ Len(t) \in Nat
  OBVIOUS
<1>2. ASSUME Len(s) <= Len(t)
      PROVE  SubSeq(s, 1, Len(s)) = SubSeq(t, 1, Len(s)) <=> \A i \in 1..Len(s) : s[i] = t[i]
  <2>1. /\ SubSeq(s, 1, Len(s)) = [i \in 1..Len(s) |-> s[i]]
        /\ SubSeq(t, 1, Len(s)) = [i \in 1..Len(s) |-> t[i]]
    BY <1>1, <1>2
  <2> QED BY <2>1, Zenon
<1>3. IsPrefix(s, t) <=> Len(s) <= Len(t) /\ \A i \in 1..Len(s) : s[i] = t[i]
  BY <1>2 DEF IsPrefix
<1>4. ASSUME \A i \in 1..Len(s) : s[i] = t[i]
      PROVE  s = t <=> Len(s) = Len(t)
  BY <1>1, <1>4
<1> QED BY <1>1, <1>3, <1>4 DEF IsStrictPrefix

LEMMA Singletons ==
  ASSUME NEW S, NEW x \in S, NEW y \in S
  PROVE  <<x>> \in Seq(S) \ {<<>>} /\ <<x, y>> \in Seq(S) \ {<<>>}
OBVIOUS

LEMMA NamesOfDatasets ==
  /\ Empty \in Names /\ <<Empty>> \in Paths /\ ~Supported(Empty)
  /\ \A name \in Names : Supported(name) => Last(name) \notin UrlSuffixes
<1>1. Empty \in Names
  <2>1. "" \in Parts
    BY PartsAssumption
  <2> QED BY <2>1, Singletons, Zenon DEF Names, Empty
<1>2. <<Empty>> \in Paths
  BY <1>1 DEF Paths
<1>3. ~Supported(Empty)
  BY DEF Supported, ExtensionOf, Empty
<1>4. ASSUME NEW name \in Names, Supported(name) PROVE Last(name) \notin UrlSuffixes
  BY <1>4 DEF Supported, ExtensionOf, UrlSuffixes
<1> QED BY <1>1, <1>2, <1>3, <1>4

LEMMA DirectoryIsPath ==
  ASSUME NEW line \in CommandLines
  PROVE  DataOf(line) \in Paths /\ WithoutSlash(DataOf(line)) \in Seq(Names)
<1>1. line.free \in Seq(Paths) /\ line.config \in Seq(Paths)
  BY RequestsAssumption
<1>2. DefaultData \in Paths
  <2>1. <<"data">> \in Names
    <3>1. "data" \in Parts
      BY PartsAssumption
    <3> QED BY <3>1, Singletons, Zenon DEF Names
  <2> QED BY <2>1, NamesOfDatasets, Singletons, Zenon DEF DefaultData, Paths
<1>3. ASSUME NEW s \in Seq(Paths), s # <<>> PROVE Head(s) \in Paths
  BY <1>3
<1>4. DataOf(line) \in Paths
  BY <1>1, <1>2, <1>3 DEF DataOf, ConfiguredData
<1>5. ASSUME NEW p \in Paths PROVE WithoutSlash(p) \in Seq(Names)
  BY DEF Paths, WithoutSlash, Front
<1> QED BY <1>4, <1>5

\* A key is what follows the directory, and nothing if that is a file.
LEMMA KeyOfFile ==
  ASSUME NEW data \in Paths, NEW p \in Paths, WithoutSlash(data) \in Seq(Names),
         IsPrefix(WithoutSlash(data), p)
  PROVE  LET w == Len(WithoutSlash(data))
             k == Relative(data, p)
         IN  /\ w \in Nat /\ w <= Len(p)
             /\ k \in Paths
             /\ Len(p) = w => k = <<Empty>>
             /\ Len(p) > w => /\ Len(k) = Len(p) - w
                              /\ \A i \in 1..Len(k) : k[i] = p[w + i]
                              /\ Last(k) = Last(p)
<1> DEFINE w == Len(WithoutSlash(data))
           k == Relative(data, p)
           rest == SubSeq(p, w + 1, Len(p))
<1>1. p \in Seq(Names) /\ p # <<>> /\ Len(p) \in Nat /\ w \in Nat /\ w <= Len(p)
  BY DEF Paths, IsPrefix
<1>2. k = IF rest = <<>> THEN <<Empty>> ELSE rest
  BY DEF Relative
<1>3. <<Empty>> \in Paths
  BY NamesOfDatasets
<1> HIDE DEF w, k
<1>4. CASE Len(p) = w
  <2>1. rest = <<>>
    BY <1>1, <1>4
  <2> QED BY <1>1, <1>2, <1>3, <1>4, <2>1 DEF w, k
<1>5. CASE Len(p) > w
  <2>1. /\ rest \in Seq(Names) /\ Len(rest) = Len(p) - w
        /\ \A i \in 1..Len(rest) : rest[i] = p[w + i]
    <3>1. w + 1 \in 1..(Len(p) + 1) /\ Len(p) \in 0..Len(p)
      BY <1>1
    <3> DEFINE a == w + 1
    <3>2. a \in Nat /\ \A i \in a..Len(p) : i \in 1..Len(p)
      BY <1>1
    <3>3. rest \in Seq(Names) /\ Len(rest) = Len(p) - a + 1
          /\ \A i \in 1..Len(rest) : rest[i] = p[a + i - 1]
      <4> HIDE DEF a
      <4>1. SubSeq(p, a, Len(p)) \in Seq(Names)
        BY <1>1, <3>2
      <4> QED BY <1>1, <3>1, <3>2, <4>1 DEF a
    <3> QED BY <1>1, <1>5, <3>3
  <2>2. rest # <<>>
    <3>1. Len(rest) # 0
      BY <1>1, <1>5, <2>1
    <3> HIDE DEF rest
    <3> QED BY <3>1
  <2>3. k = rest
    BY <1>2, <2>2
  <2>4. Last(k) = Last(p)
    <3>1. Len(k) \in 1..Len(k) /\ w + Len(k) = Len(p)
      BY <1>1, <1>5, <2>1, <2>3
    <3> QED BY <2>1, <2>3, <3>1 DEF Last
  <2> QED BY <1>1, <1>5, <2>1, <2>2, <2>3, <2>4 DEF w, k, Paths
<1> QED BY <1>1, <1>4, <1>5

LEMMA KeysAreNames ==
  ASSUME NEW line \in CommandLines, NEW k \in Keys(DataOf(line))
  PROVE  /\ k \in Paths
         /\ k # <<Empty>> => /\ Supported(Last(k))
                             /\ \A other \in Keys(DataOf(line)) : ~IsStrictPrefix(k, other)
<1> DEFINE data == DataOf(line)
           D == WithoutSlash(data)
           w == Len(D)
           Good(f) == Walked(data, f.path) /\ Supported(Last(f.path)) /\ f.opens
<1>1. data \in Paths /\ D \in Seq(Names)
  BY DirectoryIsPath
<1>2. \A f \in Disk : f.path \in Paths /\ (f.opens => \A g \in Disk : ~IsStrictPrefix(f.path, g.path))
  BY DiskAssumption
<1>3. \A x \in Keys(data) : \E f \in Disk : Good(f) /\ x = Relative(data, f.path)
  BY DEF Keys
<1>4. \A f \in Disk : Good(f) => IsPrefix(D, f.path)
  BY DEF Walked
<1> HIDE DEF D, Good
<1>5. PICK f \in Disk : Good(f) /\ k = Relative(data, f.path)
  BY <1>3
<1>6. /\ w \in Nat /\ w <= Len(f.path) /\ k \in Paths /\ f.path \in Seq(Names)
      /\ Len(f.path) = w => k = <<Empty>>
      /\ Len(f.path) > w => /\ Len(k) = Len(f.path) - w
                            /\ \A i \in 1..Len(k) : k[i] = f.path[w + i]
                            /\ Last(k) = Last(f.path)
  BY <1>1, <1>2, <1>4, <1>5, KeyOfFile DEF D, Paths
<1>7. ASSUME k # <<Empty>> PROVE Supported(Last(k))
  BY <1>5, <1>6, <1>7 DEF Good
<1>8. ASSUME k # <<Empty>>, NEW other \in Keys(data), IsStrictPrefix(k, other)
      PROVE  FALSE
  <2>1. PICK g \in Disk : Good(g) /\ other = Relative(data, g.path)
    BY <1>3
  <2>2. /\ w <= Len(g.path) /\ other \in Paths /\ g.path \in Seq(Names)
        /\ Len(g.path) = w => other = <<Empty>>
        /\ Len(g.path) > w => /\ Len(other) = Len(g.path) - w
                              /\ \A i \in 1..Len(other) : other[i] = g.path[w + i]
    <3> DEFINE p == g.path
    <3>1. data \in Paths /\ p \in Paths /\ WithoutSlash(data) \in Seq(Names) /\ IsPrefix(WithoutSlash(data), p)
      BY <1>1, <1>2, <1>4, <2>1 DEF D
    <3> HIDE DEF p, w
    <3>2. LET v == Len(WithoutSlash(data))
          IN  /\ v <= Len(p) /\ Relative(data, p) \in Paths
              /\ Len(p) = v => Relative(data, p) = <<Empty>>
              /\ Len(p) > v => /\ Len(Relative(data, p)) = Len(p) - v
                               /\ \A i \in 1..Len(Relative(data, p)) : Relative(data, p)[i] = p[v + i]
      BY ONLY <3>1, KeyOfFile, Zenon
    <3>3. w = Len(WithoutSlash(data)) /\ p \in Seq(Names) /\ other = Relative(data, p)
      BY <2>1, <3>1 DEF D, w, p, Paths
    <3>4. /\ w <= Len(p) /\ other \in Paths
          /\ Len(p) = w => other = <<Empty>>
          /\ Len(p) > w => /\ Len(other) = Len(p) - w
                           /\ \A i \in 1..Len(other) : other[i] = p[w + i]
      BY ONLY <3>2, <3>3, Zenon
    <3> QED BY <3>3, <3>4 DEF p
  <2>3. Len(k) < Len(other) /\ \A i \in 1..Len(k) : k[i] = other[i]
    BY <1>6, <1>8, <2>2, Beginnings DEF Paths
  <2>4. Len(k) \in Nat /\ Len(k) >= 1 /\ Len(f.path) \in Nat /\ Len(g.path) \in Nat
    BY <1>6, <2>2 DEF Paths
  <2>5. Len(f.path) > w
    BY <1>6, <1>8, <2>4
  <2>6. Len(g.path) > w
    <3>1. CASE Len(g.path) = w
      <4>1. Len(other) = 1
        BY <2>2, <3>1
      <4> QED BY <2>3, <2>4, <4>1
    <3> QED BY <1>6, <2>2, <2>4, <3>1
  <2>7. Len(f.path) < Len(g.path)
    BY <1>6, <2>2, <2>3, <2>4, <2>5, <2>6
  <2>8. ASSUME NEW i \in 1..Len(f.path) PROVE f.path[i] = g.path[i]
    <3>1. CASE i <= w
      <4>1. /\ \A j \in 1..w : D[j] = f.path[j]
            /\ \A j \in 1..w : D[j] = g.path[j]
        BY <1>1, <1>4, <1>5, <1>6, <2>1, <2>2, Beginnings
      <4> QED BY <1>6, <2>4, <3>1, <4>1
    <3>2. CASE i > w
      <4>1. i - w \in 1..Len(k) /\ i - w \in 1..Len(other) /\ w + (i - w) = i
        BY <1>6, <2>2, <2>3, <2>4, <2>5, <2>6, <3>2
      <4>2. k[i - w] = f.path[i] /\ other[i - w] = g.path[i] /\ k[i - w] = other[i - w]
        BY <1>6, <2>2, <2>3, <2>5, <2>6, <4>1
      <4> QED BY <4>2
    <3> QED BY <1>6, <2>4, <3>1, <3>2
  <2>9. IsStrictPrefix(f.path, g.path)
    BY <1>6, <2>2, <2>7, <2>8, Beginnings
  <2> QED BY <1>2, <1>5, <2>1, <2>9 DEF Good
<1> QED BY <1>6, <1>7, <1>8

\* The map yields every key once: its order lists them all.
LEMMA KeysAreListed ==
  ASSUME NEW line \in CommandLines, NEW ks \in SetToSeqs(Keys(DataOf(line)))
  PROVE  ks \in Seq(Paths) /\ ToSet(ks) = Keys(DataOf(line)) /\ NoDoubles(ks)
<1> DEFINE K == Keys(DataOf(line))
           n == Cardinality(K)
           Good(f) == Walked(DataOf(line), f.path) /\ Supported(Last(f.path)) /\ f.opens
           F == {f \in Disk : Good(f)}
           key == [f \in F |-> Relative(DataOf(line), f.path)]
<1>1. IsFiniteSet(K)
  <2>1. IsFiniteSet(F)
    BY DiskAssumption, FS_Subset
  <2>2. key \in Surjection(F, K)
    <3>1. K = {Relative(DataOf(line), f.path) : f \in F}
      BY DEF Keys
    <3> HIDE DEF F, K
    <3> QED BY <3>1 DEF Surjection
  <2> QED BY <2>1, <2>2, FS_Surjection
<1> HIDE DEF K
<1>2. ks \in [1..n -> K] /\ \A i, j \in 1..n : i # j => ks[i] # ks[j]
  BY DEF SetToSeqs, K
<1>3. n \in Nat
  BY <1>1, FS_CardinalityType
<1>4. IsFiniteSet(1..n) /\ Cardinality(1..n) = n
  BY <1>3, FS_Interval
<1>5. ks \in Injection(1..n, K)
  BY <1>2 DEF Injection, IsInjective
<1>6. ks \in Surjection(1..n, K)
  BY <1>1, <1>4, <1>5, FS_Injection
<1>7. K \subseteq Paths
  BY KeysAreNames DEF K
<1>8. ks \in Seq(Paths)
  BY <1>2, <1>3, <1>7
<1>9. ToSet(ks) = K
  BY <1>2, <1>6 DEF ToSet, Surjection
<1>10. NoDoubles(ks)
  <2>1. Len(ks) = n
    BY <1>2, <1>3
  <2> QED BY <1>2, <2>1 DEF NoDoubles
<1> QED BY <1>8, <1>9, <1>10 DEF K

-----------------------------------------------------------------------------
(* The URLs of a dataset.                                                   *)

LEMMA Fronts ==
  ASSUME NEW S, NEW s \in Seq(S), Len(s) >= 1
  PROVE  /\ Front(s) \in Seq(S) /\ Len(Front(s)) = Len(s) - 1
         /\ \A i \in 1..(Len(s) - 1) : Front(s)[i] = s[i]
         /\ Append(Front(s), Last(s)) = s
<1>1. Len(s) \in Nat /\ Len(s) - 1 \in Nat /\ \A i \in 1..(Len(s) - 1) : i \in 1..Len(s)
  OBVIOUS
<1> DEFINE m == Len(s) - 1
<1>2. m \in Nat /\ m <= Len(s) /\ \A i \in 1..m : i \in 1..Len(s)
  BY <1>1
<1> HIDE DEF m
<1>3. /\ SubSeq(s, 1, m) \in Seq(S) /\ Len(SubSeq(s, 1, m)) = m
      /\ \A i \in 1..m : SubSeq(s, 1, m)[i] = s[i]
  BY <1>2
<1>4. Append(SubSeq(s, 1, m), Last(s)) = s
  BY <1>1, <1>2, <1>3 DEF Last, m
<1> QED BY <1>3, <1>4 DEF Front, m

LEMMA Together ==
  ASSUME NEW S, NEW d \in S, NEW s \in Seq(S), NEW x \in S
  PROVE  /\ <<d>> \o s \in Seq(S) /\ Len(<<d>> \o s) = Len(s) + 1
         /\ \A i \in 1..Len(s) : (<<d>> \o s)[i + 1] = s[i]
         /\ Append(<<d>> \o s, x) = <<d>> \o Append(s, x)
<1>1. ASSUME NEW i \in 1..Len(s) PROVE (<<d>> \o s)[i + 1] = s[i]
  OBVIOUS
<1>2. Len(<<d>> \o s) = Len(s) + 1 /\ <<d>> \o s \in Seq(S)
  OBVIOUS
<1>3. Append(<<d>> \o s, x) = <<d>> \o Append(s, x)
  OBVIOUS
<1> QED BY <1>1, <1>2, <1>3

\* A name with a suffix is no name of a dataset, and can be taken apart.
LEMMA SuffixedNames ==
  ASSUME NEW k \in Paths, NEW s \in UrlSuffixes
  PROVE  LET tail == WithSuffix(k, s)
         IN  /\ tail \in Paths /\ Last(tail) # Empty /\ ~Supported(Last(tail))
             /\ Len(Last(tail)) > 1 /\ Last(Last(tail)) = s
             /\ Append(Front(tail), Front(Last(tail))) = k
             /\ WithSuffix(DataPath \o k, s) = DataPath \o tail
<1> DEFINE n == Len(k)
           name == Last(k)
           tail == WithSuffix(k, s)
<1>1. k \in Seq(Names) /\ n \in Nat /\ n >= 1 /\ name \in Seq(Parts) /\ Len(name) >= 1
  BY DEF Paths, Names, Last
<1>2. s \in Parts
  BY PartsAssumption DEF UrlSuffixes
<1>3. /\ Append(name, s) \in Seq(Parts) /\ Len(Append(name, s)) = Len(name) + 1
      /\ Append(name, s)[Len(name) + 1] = s
      /\ Append(name, s) \in Names
  BY <1>1, <1>2 DEF Names
<1>4. Front(k) \in Seq(Names) /\ Len(Front(k)) = n - 1
      /\ \A i \in 1..(n - 1) : Front(k)[i] = k[i]
  BY <1>1, Fronts
<1>5. /\ tail = Append(Front(k), Append(name, s))
      /\ tail \in Seq(Names) /\ Len(tail) = n /\ tail[n] = Append(name, s)
      /\ \A i \in 1..(n - 1) : tail[i] = k[i]
  BY <1>1, <1>3, <1>4 DEF WithSuffix
<1>6. Last(tail) = Append(name, s)
  BY <1>5 DEF Last
<1>7. Len(Last(tail)) > 1 /\ Last(Last(tail)) = s /\ Last(tail) # Empty
  <2>1. Last(Append(name, s)) = s
    BY <1>3 DEF Last
  <2>2. Len(Empty) = 1
    BY DEF Empty
  <2> QED BY <1>1, <1>3, <1>6, <2>1, <2>2
<1>8. ~Supported(Last(tail))
  BY <1>3, <1>6, <1>7, NamesOfDatasets
<1>9. Append(Front(tail), Front(Last(tail))) = k
  <2>1. Front(Append(name, s)) = name
    BY <1>1, <1>2, <1>3 DEF Front
  <2>2. Front(tail) = Front(k)
    BY <1>1, <1>4, <1>5 DEF Front
  <2>3. Append(Front(k), name) = k
    BY <1>1, <1>4 DEF Last
  <2> QED BY <1>6, <2>1, <2>2, <2>3
<1>10. WithSuffix(DataPath \o k, s) = DataPath \o tail
  <2> DEFINE d == <<"data">>
             x == Append(name, s)
             p == <<d>> \o k
  <2>1. d \in Names
    <3>1. "data" \in Parts
      BY PartsAssumption
    <3> QED BY <3>1, Singletons, Zenon DEF Names
  <2>2. x \in Names
    BY <1>3
  <2>3. DataPath = <<d>>
    BY DEF DataPath
  <2> HIDE DEF d, x
  <2>4. p \in Seq(Names) /\ Len(p) = n + 1 /\ \A i \in 1..n : p[i + 1] = k[i]
    BY <1>1, <2>1, Together
  <2>5. Last(p) = name
    <3>1. Len(p) = n + 1 /\ n \in 1..n
      BY <1>1, <2>4
    <3> QED BY <2>4, <3>1 DEF Last
  <2>6. p = Append(<<d>> \o Front(k), name)
    <3>1. name \in Names /\ Append(Front(k), name) = k
      BY <1>1, Fronts DEF Names
    <3> HIDE DEF name
    <3> QED BY <1>4, <2>1, <3>1, Together
  <2>7. Front(p) = <<d>> \o Front(k)
    <3>1. <<d>> \o Front(k) \in Seq(Names)
      BY <1>4, <2>1, Together
    <3> DEFINE q == <<d>> \o Front(k)
    <3>2. q \in Seq(Names) /\ p = Append(q, name) /\ Len(p) = Len(q) + 1 /\ Len(q) \in Nat
      BY <1>1, <2>6, <3>1
    <3> HIDE DEF q, p, name
    <3>3. SubSeq(p, 1, Len(q)) = q
      BY <3>2
    <3> QED BY <3>2, <3>3 DEF Front, q
  <2>8. Append(<<d>> \o Front(k), x) = <<d>> \o Append(Front(k), x)
    BY <1>4, <2>1, <2>2, Together
  <2> QED BY <1>5, <2>3, <2>5, <2>7, <2>8 DEF WithSuffix, x
<1> QED BY <1>5, <1>7, <1>8, <1>9, <1>10 DEF Paths

LEMMA TailsOfRequests ==
  ASSUME NEW tail \in Paths
  PROVE  LET path == DataPath \o tail
         IN  path[1] = DataPath[1] /\ TailOf(path) = tail /\ path # <<Empty>>
<1>1. tail \in Seq(Names) /\ Len(tail) \in Nat /\ Len(tail) >= 1
  BY DEF Paths
<1>2. DataPath = << <<"data">> >>
  BY DEF DataPath
<1> DEFINE d == <<"data">>
<1> HIDE DEF d
<1>3. DataPath = <<d>>
  BY <1>2 DEF d
<1>4. /\ Len(<<d>> \o tail) = Len(tail) + 1 /\ (<<d>> \o tail)[1] = d
      /\ Tail(<<d>> \o tail) = tail
  BY <1>1
<1>5. Len(<<Empty>>) = 1
  OBVIOUS
<1> QED BY <1>1, <1>3, <1>4, <1>5 DEF TailOf

-----------------------------------------------------------------------------
(* The pages.                                                               *)

\* Whatever is collected from the elements of a list is a list.
LEMMA Collected ==
  ASSUME NEW n \in Nat, NEW S, NEW ss \in [1..n -> Seq(S)]
  PROVE  FlattenSeq(ss) \in Seq(S) /\ Len(FlattenSeq(ss)) \in Nat
<1>1. ss \in Seq(Seq(S))
  OBVIOUS
<1> QED BY <1>1, Flattened

LEMMA Picked ==
  ASSUME NEW n \in Nat, NEW e, NEW ss, ss = [i \in 1..n |-> ss[i]],
         \A i \in 1..n : ss[i] \in {<<>>, <<e[i]>>}
  PROVE  FlattenSeq(ss) \in Seq({e[i] : i \in 1..n}) /\ Len(FlattenSeq(ss)) \in Nat
<1> DEFINE S == {e[i] : i \in 1..n}
<1>1. ASSUME NEW i \in 1..n PROVE ss[i] \in Seq(S)
  <2>1. e[i] \in S
    OBVIOUS
  <2> HIDE DEF S
  <2>2. <<>> \in Seq(S) /\ <<e[i]>> \in Seq(S)
    BY <2>1
  <2> QED BY <2>2
<1> HIDE DEF S
<1>2. ss \in [1..n -> Seq(S)]
  BY <1>1
<1> QED BY <1>2, Collected DEF S

\* Above a path that no key extends there is neither file nor folder.
LEMMA NoPage ==
  ASSUME NEW ks \in Seq(Paths), NEW tail \in Paths, Last(tail) # Empty,
         \A i \in DOMAIN ks : ~IsStrictPrefix(tail, ks[i])
  PROVE  ~Panics(ks, tail) /\ ~IsFolder(ks, tail)
<1>1. Len(ks) \in Nat /\ DOMAIN ks = 1..Len(ks)
  OBVIOUS
<1>2. Front(AsFolder(tail)) = tail
  <2>1. tail \in Seq(Names) /\ Empty \in Names
    BY NamesOfDatasets DEF Paths
  <2>2. AsFolder(tail) = Append(tail, Empty)
    BY DEF AsFolder
  <2>3. Len(tail) \in Nat /\ Len(Append(tail, Empty)) = Len(tail) + 1
    BY <2>1
  <2>4. SubSeq(Append(tail, Empty), 1, Len(tail)) = tail
    BY <2>1, <2>3
  <2> QED BY <2>2, <2>3, <2>4 DEF Front
<1> DEFINE ss == [i \in 1..Len(ks) |->
                    IF IsStrictPrefix(tail, ks[i])
                    THEN <<SubSeq(ks[i], Len(tail) + 1, Len(ks[i]))>> ELSE <<>>]
<1>3. Rests(ks, tail) = FlattenSeq(ss)
  BY <1>2 DEF Rests
<1>4. ss \in [1..Len(ks) -> Seq({})]
  BY <1>1
<1> HIDE DEF ss
<1>5. Rests(ks, tail) = <<>>
  <2>1. FlattenSeq(ss) \in Seq({})
    BY <1>1, <1>4, Collected
  <2>2. \A s \in Seq({}) : s = <<>>
    OBVIOUS
  <2> QED BY <1>3, <2>1, <2>2
<1>6. /\ [i \in 1..Len(<<>>) |->
            IF Len(<<>>[i]) = 1 THEN <<Head(<<>>[i])>> ELSE <<>>] = <<>>
      /\ [i \in 1..Len(<<>>) |->
            IF Len(<<>>[i]) > 1 THEN <<Head(<<>>[i])>> ELSE <<>>] = <<>>
  OBVIOUS
<1>7. FlattenSeq(<<>>) = <<>>
  BY DEF FlattenSeq
<1>8. FileNames(<<>>) = <<>> /\ FolderNames(<<>>) = <<>>
  BY <1>6, <1>7 DEF FileNames, FolderNames
<1>9. Sorted(<<>>) = <<>>
  BY DEF Sorted
<1>10. Dedup(<<>>) = <<>>
  <2>1. [i \in 1..Len(<<>>) |->
           IF i > 1 /\ <<>>[i] = <<>>[i - 1] THEN <<>> ELSE <<<<>>[i]>>] = <<>>
    OBVIOUS
  <2> QED BY <1>7, <2>1 DEF Dedup
<1>11. Files(ks, tail) = <<>> /\ Folders(ks, tail) = <<>>
  BY <1>5, <1>8, <1>9, <1>10 DEF Files, Folders
<1>12. ToSet(FolderNames(Rests(ks, tail))) = {}
  BY <1>5, <1>8 DEF ToSet
<1> QED BY <1>11, <1>12 DEF Panics, IsFolder

-----------------------------------------------------------------------------
(* The order of names.                                                      *)

Listed == ToSet(Alphabet)

LEMMA BeforeIsOrder ==
  /\ \A a \in Listed : ~Before(a, a)
  /\ \A a, b \in Listed : a = b \/ Before(a, b) \/ Before(b, a)
  /\ \A a, b \in Listed : ~(Before(a, b) /\ Before(b, a))
  /\ \A a, b, c \in Listed : Before(a, b) /\ Before(b, c) => Before(a, c)
<1> DEFINE L == Alphabet
           D == DOMAIN Alphabet
<1>1. Alphabet \in Seq(Names) /\ \A i, j \in D : L[i] = L[j] => i = j
  BY AlphabetAssumption
<1>2. D \subseteq Int
  BY <1>1
<1>3. \A a \in Listed : \E i \in D : L[i] = a
  BY DEF Listed, ToSet
<1>4. \A a, b : Before(a, b) <=> \E i, j \in D : i < j /\ L[i] = a /\ L[j] = b
  BY DEF Before
<1>5. ASSUME NEW a \in Listed, NEW b \in Listed, NEW i \in D, NEW j \in D, L[i] = a, L[j] = b
      PROVE  Before(a, b) <=> i < j
  <2> HIDE DEF L, D
  <2> QED BY <1>1, <1>4, <1>5
<1> HIDE DEF L, D
<1>6. ASSUME NEW a \in Listed, NEW b \in Listed, NEW c \in Listed
      PROVE  /\ ~Before(a, a) /\ (a = b \/ Before(a, b) \/ Before(b, a))
             /\ ~(Before(a, b) /\ Before(b, a))
             /\ Before(a, b) /\ Before(b, c) => Before(a, c)
  <2>1. PICK i \in D : L[i] = a
    BY <1>3
  <2>2. PICK j \in D : L[j] = b
    BY <1>3
  <2>3. PICK l \in D : L[l] = c
    BY <1>3
  <2>4. /\ Before(a, a) <=> i < i
        /\ Before(a, b) <=> i < j
        /\ Before(b, a) <=> j < i
        /\ Before(b, c) <=> j < l
        /\ Before(a, c) <=> i < l
    BY <1>5, <2>1, <2>2, <2>3
  <2>5. i \in Int /\ j \in Int /\ l \in Int /\ (i = j => a = b)
    BY <1>2, <2>1, <2>2
  <2> QED BY <2>4, <2>5
<1> QED BY <1>6

Ordered(names) ==
  \A i, j \in 1..Len(names) : i <= j => names[i] = names[j] \/ Before(names[i], names[j])

\* The sort keeps what there is and puts it in order.
LEMMA SortedIs ==
  ASSUME NEW names \in Seq(Listed)
  PROVE  /\ Sorted(names) \in Seq(Listed) /\ ToSet(Sorted(names)) = ToSet(names)
         /\ Ordered(Sorted(names))
         /\ NoDoubles(names) => NoDoubles(Sorted(names))
<1> DEFINE N == Len(names)
           I == 1..N
           B == [j \in I |-> {i \in I : NotAfter(names, i, j)}]
           rank(j) == Cardinality(B[j])
           at_(n) == OfRank(names, n)
<1>1. N \in Nat /\ DOMAIN names = I /\ \A i \in I : names[i] \in Listed
  OBVIOUS
<1>2. IsFiniteSet(I) /\ Cardinality(I) = N
  <2>1. 1 \in Int /\ N \in Int
    BY <1>1
  <2>2. IsFiniteSet(1..N) /\ Cardinality(1..N) = IF 1 > N THEN 0 ELSE N - 1 + 1
    BY <2>1, FS_Interval
  <2> QED BY <1>1, <2>2
<1>3. /\ \A x \in I : NotAfter(names, x, x)
      /\ \A x, y \in I : NotAfter(names, x, y) \/ NotAfter(names, y, x)
      /\ \A x, y, z \in I : NotAfter(names, x, y) /\ NotAfter(names, y, z) => NotAfter(names, x, z)
      /\ \A x, y \in I : NotAfter(names, x, y) /\ NotAfter(names, y, x) => x = y
  <2>1. ASSUME NEW x \in I, NEW y \in I, NEW z \in I
        PROVE  /\ NotAfter(names, x, x) /\ (NotAfter(names, x, y) \/ NotAfter(names, y, x))
               /\ NotAfter(names, x, y) /\ NotAfter(names, y, z) => NotAfter(names, x, z)
               /\ NotAfter(names, x, y) /\ NotAfter(names, y, x) => x = y
    <3> DEFINE a == names[x]
               b == names[y]
               c == names[z]
    <3>1. a \in Listed /\ b \in Listed /\ c \in Listed
      BY <1>1
    <3>2. x \in Int /\ y \in Int /\ z \in Int
      BY <1>1
    <3>3. /\ ~Before(a, a) /\ (a = b \/ Before(a, b) \/ Before(b, a))
          /\ ~(Before(a, b) /\ Before(b, a))
          /\ Before(a, b) /\ Before(b, c) => Before(a, c)
      BY <3>1, BeforeIsOrder
    <3> HIDE DEF I
    <3> QED BY <3>2, <3>3 DEF NotAfter
  <2> QED BY <2>1
<1>4. /\ B \in [I -> SUBSET I]
      /\ \A x \in I : x \in B[x]
      /\ \A x, y \in I : x \in B[y] \/ y \in B[x]
      /\ \A x, y \in I : x \in B[y] => B[x] \subseteq B[y]
      /\ \A x, y \in I : x \in B[y] /\ y \in B[x] => x = y
  <2> HIDE DEF I
  <2> QED BY <1>3
<1> HIDE DEF B
<1>5. /\ \A x \in I : rank(x) \in 1..N
      /\ \A p \in 1..N : \E x \in I : rank(x) = p
      /\ \A x, y \in I : rank(x) <= rank(y) <=> x \in B[y]
  <2> HIDE DEF I
  <2> QED BY <1>2, <1>4, Ranks
<1>6. ASSUME NEW n \in I PROVE at_(n) \in I /\ rank(at_(n)) = n
  <2>1. OfRank(names, n) = CHOOSE j \in I : rank(j) = n
    <3>1. \A j \in I : B[j] = {i \in I : NotAfter(names, i, j)}
      BY DEF B
    <3> HIDE DEF I
    <3>2. OfRank(names, n) = CHOOSE j \in I : Cardinality({i \in I : NotAfter(names, i, j)}) = n
      BY DEF OfRank, I
    <3> QED BY <3>1, <3>2
  <2>2. \E j \in I : rank(j) = n
    BY <1>5
  <2> HIDE DEF I, rank
  <2> QED BY <2>1, <2>2
<1>7. ASSUME NEW x \in I PROVE rank(x) \in I /\ at_(rank(x)) = x
  <2>1. rank(x) \in I
    BY <1>5
  <2>2. at_(rank(x)) \in I /\ rank(at_(rank(x))) = rank(x)
    BY <1>6, <2>1
  <2>3. x \in B[at_(rank(x))] /\ at_(rank(x)) \in B[x]
    <3> DEFINE y == at_(rank(x))
    <3>1. rank(x) \in Nat /\ rank(y) \in Nat /\ rank(x) <= rank(y) /\ rank(y) <= rank(x)
      BY <1>1, <2>1, <2>2
    <3> HIDE DEF y, rank, I
    <3> QED BY <1>5, <2>2, <3>1 DEF y
  <2> DEFINE y == at_(rank(x))
  <2>4. y \in I /\ x \in B[y] /\ y \in B[x]
    BY <2>2, <2>3
  <2> HIDE DEF y
  <2>5. x = y
    <3> HIDE DEF I
    <3> QED BY <1>4, <2>4
  <2> QED BY <2>1, <2>5 DEF y
<1> DEFINE s == Sorted(names)
<1>8. s = [n \in I |-> names[at_(n)]]
  BY DEF Sorted
<1> HIDE DEF s, rank, at_
<1>9. s \in Seq(Listed) /\ Len(s) = N /\ DOMAIN s = I
  <2>1. s \in [I -> Listed]
    BY <1>1, <1>6, <1>8
  <2> QED BY <1>1, <2>1
<1>10. ToSet(s) = ToSet(names)
  <2>1. ASSUME NEW v \in ToSet(s) PROVE v \in ToSet(names)
    <3>1. PICK n \in I : v = s[n]
      BY <1>9 DEF ToSet
    <3> QED BY <1>1, <1>6, <1>8, <3>1 DEF ToSet
  <2>2. ASSUME NEW v \in ToSet(names) PROVE v \in ToSet(s)
    <3>1. PICK x \in I : v = names[x]
      BY <1>1 DEF ToSet
    <3>2. rank(x) \in I /\ s[rank(x)] = v
      BY <1>7, <1>8, <3>1
    <3> QED BY <1>9, <3>2 DEF ToSet
  <2> QED BY <2>1, <2>2
<1>11. Ordered(s)
  <2> SUFFICES ASSUME NEW m \in I, NEW n \in I, m <= n
               PROVE  s[m] = s[n] \/ Before(s[m], s[n])
    BY <1>9 DEF Ordered
  <2>1. at_(m) \in I /\ at_(n) \in I /\ rank(at_(m)) <= rank(at_(n))
    BY <1>6
  <2>2. at_(m) \in B[at_(n)]
    BY <1>5, <2>1
  <2>3. NotAfter(names, at_(m), at_(n))
    BY <2>1, <2>2 DEF B
  <2> HIDE DEF I
  <2> QED BY <1>8, <2>3 DEF NotAfter
<1>12. ASSUME NoDoubles(names) PROVE NoDoubles(s)
  <2> SUFFICES ASSUME NEW m \in I, NEW n \in I, s[m] = s[n] PROVE m = n
    BY <1>9 DEF NoDoubles
  <2>1. at_(m) \in I /\ at_(n) \in I /\ names[at_(m)] = names[at_(n)]
    BY <1>6, <1>8
  <2>2. at_(m) = at_(n)
    BY <1>12, <2>1 DEF NoDoubles
  <2> QED BY <1>6, <2>2
<1> QED BY <1>9, <1>10, <1>11, <1>12 DEF s

\* Of an ordered list dedup leaves every name once.
LEMMA DedupIs ==
  ASSUME NEW names \in Seq(Listed), Ordered(names)
  PROVE  /\ Dedup(names) \in Seq(Listed) /\ ToSet(Dedup(names)) = ToSet(names)
         /\ NoDoubles(Dedup(names))
<1> DEFINE N == Len(names)
           ss == [i \in 1..N |-> IF i > 1 /\ names[i] = names[i - 1] THEN <<>> ELSE <<names[i]>>]
           Kept(i) == ~(i > 1 /\ names[i] = names[i - 1])
<1>1. N \in Nat /\ DOMAIN names = 1..N /\ \A i \in 1..N : names[i] \in Listed
  OBVIOUS
<1>2. Dedup(names) = FlattenSeq(ss)
  BY DEF Dedup
<1>3. ASSUME NEW i \in 1..N
      PROVE  ss[i] \in Seq(Listed) /\ ss[i] = IF Kept(i) THEN <<names[i]>> ELSE <<>>
  BY <1>1
<1>4. ss \in Seq(Seq(Listed)) /\ Len(ss) = N
  <2>1. ss \in [1..N -> Seq(Listed)]
    <3>1. ss = [i \in 1..N |-> ss[i]]
      OBVIOUS
    <3> HIDE DEF ss
    <3> QED BY <1>3, <3>1
  <2> HIDE DEF ss
  <2> QED BY <1>1, <2>1
<1> HIDE DEF ss, Kept
<1>5. ASSUME NEW i \in 1..N
      PROVE  NoDoubles(ss[i]) /\ ToSet(ss[i]) = IF Kept(i) THEN {names[i]} ELSE {}
  <2>1. \A x : NoDoubles(<<x>>) /\ ToSet(<<x>>) = {x}
    BY DEF NoDoubles, ToSet
  <2>2. NoDoubles(<<>>) /\ ToSet(<<>>) = {}
    BY DEF NoDoubles, ToSet
  <2> QED BY <1>3, <2>1, <2>2
<1>6. ASSUME NEW i \in 1..N, NEW j \in 1..N, i < j, Kept(i), Kept(j) PROVE names[i] # names[j]
  <2>1. j - 1 \in 1..N /\ i <= j - 1 /\ j - 1 <= j /\ j > 1
    BY <1>1, <1>6
  <2>2. names[j] # names[j - 1]
    BY <1>6, <2>1 DEF Kept
  <2>3. Before(names[j - 1], names[j])
    BY <2>1, <2>2 DEF Ordered
  <2>4. names[i] = names[j - 1] \/ Before(names[i], names[j - 1])
    BY <2>1 DEF Ordered
  <2>5. names[i] \in Listed /\ names[j] \in Listed /\ names[j - 1] \in Listed
    BY <1>1, <2>1
  <2> QED BY <2>3, <2>4, <2>5, BeforeIsOrder
<1>7. ASSUME NEW i \in 1..N, NEW j \in 1..N, i # j PROVE ToSet(ss[i]) \cap ToSet(ss[j]) = {}
  <2>1. Kept(i) /\ Kept(j) => names[i] # names[j]
    <3>1. i < j \/ j < i
      BY <1>1, <1>7
    <3> QED BY <1>6, <3>1
  <2> QED BY <1>5, <2>1
<1>8. /\ FlattenSeq(ss) \in Seq(Listed)
      /\ ToSet(FlattenSeq(ss)) = UNION {ToSet(ss[i]) : i \in 1..N}
      /\ NoDoubles(FlattenSeq(ss))
  BY <1>4, <1>5, <1>7, FlattenedOnce
<1>9. UNION {ToSet(ss[i]) : i \in 1..N} \subseteq ToSet(names)
  BY <1>1, <1>5 DEF ToSet
<1> DEFINE U == UNION {ToSet(ss[i]) : i \in 1..N}
           T == {i \in Nat : i + 1 <= N => names[i + 1] \in U}
<1>10. 0 \in T
  <2>1. CASE 1 <= N
    <3>1. 1 \in 1..N /\ Kept(1)
      BY <1>1, <2>1 DEF Kept
    <3>2. names[1] \in ToSet(ss[1])
      BY <1>5, <3>1
    <3> QED BY <3>1, <3>2
  <2> QED BY <2>1
<1>11. ASSUME NEW i \in Nat, i \in T PROVE i + 1 \in T
  <2> DEFINE j == (i + 1) + 1
  <2>1. CASE j <= N
    <3>1. j \in 1..N /\ j - 1 = i + 1 /\ i + 1 <= N
      BY <1>1, <2>1
    <3> HIDE DEF U
    <3>2. names[j - 1] \in U
      BY <1>11, <3>1
    <3>3. Kept(j) => names[j] \in U
      BY <1>5, <3>1 DEF U
    <3>4. ~Kept(j) => names[j] = names[j - 1]
      BY DEF Kept
    <3> QED BY <3>2, <3>3, <3>4
  <2> QED BY <2>1
<1>12. ToSet(names) \subseteq U
  <2>1. Nat \subseteq T
    <3> HIDE DEF T
    <3> QED BY <1>10, <1>11, SetInduction
  <2>2. ASSUME NEW i \in 1..N PROVE names[i] \in U
    <3>1. i - 1 \in Nat /\ (i - 1) + 1 = i
      BY <1>1
    <3> HIDE DEF U
    <3> QED BY <2>1, <3>1
  <2> HIDE DEF U
  <2> QED BY <1>1, <2>2 DEF ToSet
<1> QED BY <1>2, <1>8, <1>9, <1>12

-----------------------------------------------------------------------------
(* What is below a folder.                                                  *)

LEMMA Parted ==
  ASSUME NEW w \in Seq(Names), NEW k \in Seq(Names), IsStrictPrefix(w, k)
  PROVE  LET rest == SubSeq(k, Len(w) + 1, Len(k))
         IN  rest \in Paths /\ w \o rest = k
<1>1. /\ Len(w) \in Nat /\ Len(k) \in Nat /\ Len(w) < Len(k)
      /\ \A i \in 1..Len(w) : w[i] = k[i]
  BY Beginnings
<1> DEFINE a == Len(w) + 1
           rest == SubSeq(k, a, Len(k))
<1>2. /\ a \in 1..Len(k) /\ a \in Nat /\ \A i \in a..Len(k) : i \in 1..Len(k)
  BY <1>1
<1> HIDE DEF a
<1>3. rest \in Seq(Names) /\ Len(rest) = Len(k) - a + 1
      /\ \A i \in 1..Len(rest) : rest[i] = k[a + i - 1]
  BY <1>1, <1>2
<1> HIDE DEF rest
<1>4. Len(rest) = Len(k) - Len(w) /\ Len(rest) >= 1
      /\ \A i \in 1..Len(rest) : rest[i] = k[Len(w) + i]
  BY <1>1, <1>2, <1>3 DEF a
<1>5. rest # <<>>
  BY <1>4
<1>6. w \o rest = k
  <2> DEFINE u == w \o rest
  <2>1. u \in Seq(Names) /\ Len(u) = Len(k)
    BY <1>1, <1>3, <1>4
  <2>2. ASSUME NEW i \in 1..Len(k) PROVE u[i] = k[i]
    <3>1. CASE i <= Len(w)
      <4>1. i \in 1..Len(w)
        BY <1>1, <3>1
      <4> QED BY <1>1, <1>3, <4>1
    <3>2. CASE i > Len(w)
      <4>1. i - Len(w) \in 1..Len(rest) /\ Len(w) + (i - Len(w)) = i
        BY <1>1, <1>4, <3>2
      <4>2. u[i] = rest[i - Len(w)]
        BY <1>1, <1>3, <3>2, <4>1
      <4> QED BY <1>4, <4>1, <4>2
    <3>3. i <= Len(w) \/ i > Len(w)
      BY <1>1
    <3> QED BY <3>1, <3>2, <3>3
  <2> HIDE DEF u
  <2>3. u = k
    BY <2>1, <2>2
  <2> QED BY <2>3 DEF u
<1> QED BY <1>3, <1>5, <1>6 DEF rest, a, Paths

LEMMA Continued ==
  ASSUME NEW w \in Seq(Names), NEW rest \in Paths
  PROVE  /\ w \o rest \in Paths /\ IsStrictPrefix(w, w \o rest)
         /\ SubSeq(w \o rest, Len(w) + 1, Len(w \o rest)) = rest
<1> DEFINE u == w \o rest
<1>1. rest \in Seq(Names) /\ Len(rest) \in Nat /\ Len(rest) >= 1 /\ Len(w) \in Nat
  BY DEF Paths
<1>2. /\ u \in Seq(Names) /\ Len(u) = Len(w) + Len(rest)
      /\ \A i \in 1..Len(w) : u[i] = w[i]
  BY <1>1
<1>3. \A i \in 1..Len(rest) : u[Len(w) + i] = rest[i]
  BY <1>1
<1> HIDE DEF u
<1>4. IsStrictPrefix(w, u)
  BY <1>1, <1>2, Beginnings
<1>5. u # <<>>
  BY <1>1, <1>2
<1>6. SubSeq(u, Len(w) + 1, Len(u)) = rest
  <2> DEFINE a == Len(w) + 1
             v == SubSeq(u, a, Len(u))
  <2>1. a \in Nat /\ a \in 1..Len(u) /\ Len(u) \in Nat /\ \A i \in a..Len(u) : i \in 1..Len(u)
    BY <1>1, <1>2
  <2> HIDE DEF a
  <2>2. v \in Seq(Names) /\ Len(v) = Len(u) - a + 1
        /\ \A i \in 1..Len(v) : v[i] = u[a + i - 1]
    BY <1>2, <2>1
  <2> HIDE DEF v
  <2>3. Len(v) = Len(rest) /\ \A i \in 1..Len(rest) : v[i] = u[Len(w) + i]
    BY <1>1, <1>2, <2>1, <2>2 DEF a
  <2>4. v = rest
    BY <1>1, <1>3, <2>2, <2>3
  <2> QED BY <2>4 DEF v, a
<1> QED BY <1>2, <1>4, <1>5, <1>6 DEF u, Paths

LEMMA FolderOf ==
  ASSUME NEW tail \in Paths
  PROVE  WithoutSlash(tail) \in Seq(Names) /\ Front(AsFolder(tail)) = WithoutSlash(tail)
<1>1. tail \in Seq(Names) /\ Len(tail) \in Nat /\ Len(tail) >= 1 /\ Empty \in Names
  BY NamesOfDatasets DEF Paths
<1>2. CASE Last(tail) = Empty
  BY <1>1, <1>2, Fronts DEF WithoutSlash, AsFolder
<1>3. CASE Last(tail) # Empty
  <2>1. SubSeq(Append(tail, Empty), 1, Len(tail)) = tail /\ Len(Append(tail, Empty)) = Len(tail) + 1
    BY <1>1
  <2>2. Front(Append(tail, Empty)) = tail
    BY <1>1, <2>1 DEF Front
  <2> QED BY <1>1, <1>3, <2>2 DEF WithoutSlash, AsFolder
<1> QED BY <1>2, <1>3

\* A list of what is picked from another one, which lists nothing twice if what
\* is picked is never the same.
Pick(n, e, P) == FlattenSeq([i \in 1..n |-> IF i \in P THEN <<e[i]>> ELSE <<>>])

LEMMA PickedOnce ==
  ASSUME NEW n \in Nat, NEW S, NEW e, NEW P \in SUBSET (1..n), \A i \in P : e[i] \in S
  PROVE  /\ Pick(n, e, P) \in Seq(S)
         /\ ToSet(Pick(n, e, P)) = {e[i] : i \in P}
         /\ (\A i, j \in P : e[i] = e[j] => i = j) => NoDoubles(Pick(n, e, P))
<1> DEFINE ss == [i \in 1..n |-> IF i \in P THEN <<e[i]>> ELSE <<>>]
<1>0. /\ ss = [i \in 1..n |-> ss[i]] /\ \A i \in 1..n : ss[i] = IF i \in P THEN <<e[i]>> ELSE <<>>
      /\ Pick(n, e, P) = FlattenSeq(ss) /\ P \cap (1..n) = P
  BY DEF Pick
<1> HIDE DEF ss
<1>1. ASSUME NEW i \in 1..n PROVE ss[i] \in Seq(S)
  <2>1. CASE i \in P
    <3>1. e[i] \in S
      BY <2>1
    <3>2. <<e[i]>> \in Seq(S)
      BY <3>1
    <3> QED BY <1>0, <2>1, <3>2
  <2>2. CASE i \notin P
    <3>1. ss[i] = <<>>
      BY <1>0, <2>2
    <3> QED BY <3>1
  <2> QED BY <2>1, <2>2
<1>2. ss \in Seq(Seq(S)) /\ Len(ss) = n
  <2>1. ss \in [1..n -> Seq(S)]
    BY <1>0, <1>1
  <2> QED BY <2>1
<1>3. ASSUME NEW i \in 1..n
      PROVE  NoDoubles(ss[i]) /\ ToSet(ss[i]) = IF i \in P THEN {e[i]} ELSE {}
  <2>1. \A x : NoDoubles(<<x>>) /\ ToSet(<<x>>) = {x}
    BY DEF NoDoubles, ToSet
  <2>2. NoDoubles(<<>>) /\ ToSet(<<>>) = {}
    BY DEF NoDoubles, ToSet
  <2> QED BY <1>0, <1>3, <2>1, <2>2
<1>4. /\ FlattenSeq(ss) \in Seq(S)
      /\ ToSet(FlattenSeq(ss)) = UNION {ToSet(ss[i]) : i \in 1..n}
      /\ (\A i, j \in 1..n : i # j => ToSet(ss[i]) \cap ToSet(ss[j]) = {})
           => NoDoubles(FlattenSeq(ss))
  BY <1>2, <1>3, FlattenedOnce
<1>5. UNION {ToSet(ss[i]) : i \in 1..n} = {e[i] : i \in P}
  <2>1. ASSUME NEW x \in UNION {ToSet(ss[i]) : i \in 1..n} PROVE x \in {e[i] : i \in P}
    <3>1. PICK i \in 1..n : x \in ToSet(ss[i])
      OBVIOUS
    <3> QED BY <1>3, <3>1
  <2>2. ASSUME NEW x \in {e[i] : i \in P} PROVE x \in UNION {ToSet(ss[i]) : i \in 1..n}
    <3>1. PICK i \in P : x = e[i]
      OBVIOUS
    <3>2. x \in ToSet(ss[i])
      BY <1>3, <3>1
    <3> QED BY <3>2
  <2> QED BY <2>1, <2>2
<1>6. ASSUME \A i, j \in P : e[i] = e[j] => i = j PROVE NoDoubles(FlattenSeq(ss))
  <2>1. ASSUME NEW i \in 1..n, NEW j \in 1..n, i # j PROVE ToSet(ss[i]) \cap ToSet(ss[j]) = {}
    <3>1. i \in P /\ j \in P => e[i] # e[j]
      BY <1>6, <2>1
    <3>2. /\ ToSet(ss[i]) = IF i \in P THEN {e[i]} ELSE {}
          /\ ToSet(ss[j]) = IF j \in P THEN {e[j]} ELSE {}
      BY <1>3
    <3> QED BY <3>1, <3>2
  <2> QED BY <1>4, <2>1
<1> QED BY <1>0, <1>4, <1>5, <1>6

LEMMA RestsAre ==
  ASSUME NEW ks \in Seq(Paths), NoDoubles(ks), NEW tail \in Paths
  PROVE  LET w == WithoutSlash(tail)
             rests == Rests(ks, tail)
         IN  /\ rests \in Seq(Paths) /\ NoDoubles(rests)
             /\ ToSet(rests) = {r \in Paths : w \o r \in ToSet(ks)}
<1> DEFINE w == WithoutSlash(tail)
           n == Len(ks)
           e == [i \in 1..n |-> SubSeq(ks[i], Len(w) + 1, Len(ks[i]))]
           P == {i \in 1..n : IsStrictPrefix(w, ks[i])}
<1>1. n \in Nat /\ DOMAIN ks = 1..n /\ w \in Seq(Names) /\ \A i \in 1..n : ks[i] \in Seq(Names)
  BY FolderOf DEF Paths
<1>2. Rests(ks, tail) = Pick(n, e, P)
  <2>1. [i \in 1..n |-> IF IsStrictPrefix(w, ks[i])
                        THEN <<SubSeq(ks[i], Len(w) + 1, Len(ks[i]))>> ELSE <<>>]
        = [i \in 1..n |-> IF i \in P THEN <<e[i]>> ELSE <<>>]
    <3> HIDE DEF w
    <3> QED OBVIOUS
  <2>2. Front(AsFolder(tail)) = w
    BY FolderOf
  <2> QED BY <2>1, <2>2 DEF Rests, Pick
<1>4. ASSUME NEW i \in P PROVE i \in 1..n /\ e[i] \in Paths /\ w \o e[i] = ks[i]
  <2>1. i \in 1..n /\ IsStrictPrefix(w, ks[i]) /\ e[i] = SubSeq(ks[i], Len(w) + 1, Len(ks[i]))
    OBVIOUS
  <2> HIDE DEF w, e, P
  <2> QED BY <1>1, <2>1, Parted
<1>5. ASSUME NEW i \in 1..n, NEW r \in Paths, ks[i] = w \o r PROVE i \in P /\ e[i] = r
  <2>1. IsStrictPrefix(w, w \o r) /\ SubSeq(w \o r, Len(w) + 1, Len(w \o r)) = r
    BY <1>1, Continued
  <2> HIDE DEF w
  <2> QED BY <1>5, <2>1
<1> HIDE DEF e, P, w
<1>6. /\ Pick(n, e, P) \in Seq(Paths)
      /\ ToSet(Pick(n, e, P)) = {e[i] : i \in P}
      /\ (\A i, j \in P : e[i] = e[j] => i = j) => NoDoubles(Pick(n, e, P))
  <2>1. P \in SUBSET (1..n) /\ \A i \in P : e[i] \in Paths
    BY <1>4
  <2> HIDE DEF n
  <2> QED BY <1>1, <2>1, PickedOnce
<1>7. ASSUME NEW i \in P, NEW j \in P, e[i] = e[j] PROVE i = j
  BY <1>4, <1>7 DEF NoDoubles
<1>8. {e[i] : i \in P} = {r \in Paths : w \o r \in ToSet(ks)}
  <2>1. ASSUME NEW i \in P PROVE e[i] \in Paths /\ w \o e[i] \in ToSet(ks)
    BY <1>1, <1>4 DEF ToSet
  <2>2. ASSUME NEW r \in Paths, w \o r \in ToSet(ks) PROVE \E i \in P : r = e[i]
    <3>1. PICK i \in 1..n : ks[i] = w \o r
      BY <1>1, <2>2 DEF ToSet
    <3> QED BY <1>5, <3>1
  <2> QED BY <2>1, <2>2
<1> QED BY <1>2, <1>6, <1>7, <1>8 DEF w

\* The names in a folder w of the keys K.
FileNamesIn(w, K) == {b \in Names : w \o <<b>> \in K}

FolderNamesIn(w, K) ==
  {a \in Names : \E r \in Paths : Len(r) > 1 /\ Head(r) = a /\ w \o r \in K}

LEMMA NamesAre ==
  ASSUME NEW rests \in Seq(Paths), NoDoubles(rests)
  PROVE  /\ FileNames(rests) \in Seq(Names) /\ NoDoubles(FileNames(rests))
         /\ ToSet(FileNames(rests)) = {b \in Names : <<b>> \in ToSet(rests)}
         /\ FolderNames(rests) \in Seq(Names)
         /\ ToSet(FolderNames(rests)) =
              {a \in Names : \E r \in ToSet(rests) : Len(r) > 1 /\ Head(r) = a}
<1> DEFINE n == Len(rests)
           e == [i \in 1..n |-> Head(rests[i])]
           P == {i \in 1..n : Len(rests[i]) = 1}
           Q == {i \in 1..n : Len(rests[i]) > 1}
<1>1. n \in Nat /\ DOMAIN rests = 1..n /\ \A i \in 1..n : rests[i] \in Paths
  OBVIOUS
<1>2. FileNames(rests) = Pick(n, e, P) /\ FolderNames(rests) = Pick(n, e, Q)
  <2>1. [i \in 1..n |-> IF Len(rests[i]) = 1 THEN <<Head(rests[i])>> ELSE <<>>]
        = [i \in 1..n |-> IF i \in P THEN <<e[i]>> ELSE <<>>]
    OBVIOUS
  <2>2. [i \in 1..n |-> IF Len(rests[i]) > 1 THEN <<Head(rests[i])>> ELSE <<>>]
        = [i \in 1..n |-> IF i \in Q THEN <<e[i]>> ELSE <<>>]
    OBVIOUS
  <2> QED BY <2>1, <2>2 DEF FileNames, FolderNames, Pick
<1>3. \A r \in Paths : Head(r) \in Names /\ (Len(r) = 1 => r = <<Head(r)>>)
  BY DEF Paths
<1>6. \A i \in 1..n : e[i] \in Names /\ e[i] = Head(rests[i]) /\ (i \in P => rests[i] = <<e[i]>>)
  BY <1>1, <1>3
<1>7. P \in SUBSET (1..n) /\ Q \in SUBSET (1..n)
  OBVIOUS
<1>8. \A i \in 1..n : /\ i \in P <=> Len(rests[i]) = 1
                      /\ i \in Q <=> Len(rests[i]) > 1
  OBVIOUS
<1> HIDE DEF e, P, Q
<1>9. /\ Pick(n, e, P) \in Seq(Names) /\ ToSet(Pick(n, e, P)) = {e[i] : i \in P}
      /\ (\A i, j \in P : e[i] = e[j] => i = j) => NoDoubles(Pick(n, e, P))
  <2>1. \A i \in P : e[i] \in Names
    BY <1>6, <1>7
  <2>2. n \in Nat /\ P \in SUBSET (1..n)
    BY <1>1, <1>7
  <2> HIDE DEF n
  <2>3. Pick(n, e, P) \in Seq(Names) /\ ToSet(Pick(n, e, P)) = {e[i] : i \in P}
    BY <2>1, <2>2, PickedOnce
  <2>4. (\A i, j \in P : e[i] = e[j] => i = j) => NoDoubles(Pick(n, e, P))
    BY <2>1, <2>2, PickedOnce
  <2> QED BY <2>3, <2>4
<1>10. Pick(n, e, Q) \in Seq(Names) /\ ToSet(Pick(n, e, Q)) = {e[i] : i \in Q}
  <2>1. \A i \in Q : e[i] \in Names
    BY <1>6, <1>7
  <2>2. n \in Nat /\ Q \in SUBSET (1..n)
    BY <1>1, <1>7
  <2> HIDE DEF n
  <2> QED BY <2>1, <2>2, PickedOnce
<1>11. ASSUME NEW i \in P, NEW j \in P, e[i] = e[j] PROVE i = j
  BY <1>6, <1>7, <1>11 DEF NoDoubles
<1>12. {e[i] : i \in P} = {b \in Names : <<b>> \in ToSet(rests)}
  <2>1. ASSUME NEW i \in P PROVE e[i] \in Names /\ <<e[i]>> \in ToSet(rests)
    BY <1>1, <1>6, <1>7 DEF ToSet
  <2>2. ASSUME NEW b \in Names, <<b>> \in ToSet(rests) PROVE \E i \in P : b = e[i]
    <3>1. PICK i \in 1..n : rests[i] = <<b>>
      BY <1>1, <2>2 DEF ToSet
    <3>2. Len(<<b>>) = 1 /\ Head(<<b>>) = b
      OBVIOUS
    <3> QED BY <1>6, <1>8, <3>1, <3>2
  <2> QED BY <2>1, <2>2
<1>13. {e[i] : i \in Q} = {a \in Names : \E r \in ToSet(rests) : Len(r) > 1 /\ Head(r) = a}
  <2>1. ASSUME NEW i \in Q
        PROVE  e[i] \in Names /\ \E r \in ToSet(rests) : Len(r) > 1 /\ Head(r) = e[i]
    <3>1. i \in 1..n /\ rests[i] \in ToSet(rests)
      BY <1>1, <1>7 DEF ToSet
    <3> QED BY <1>6, <1>8, <3>1
  <2>2. ASSUME NEW r \in ToSet(rests), Len(r) > 1 PROVE \E i \in Q : Head(r) = e[i]
    <3>1. PICK i \in 1..n : rests[i] = r
      BY <1>1 DEF ToSet
    <3> QED BY <1>6, <1>8, <2>2, <3>1
  <2> QED BY <2>1, <2>2
<1> QED BY <1>2, <1>9, <1>10, <1>11, <1>12, <1>13

LEMMA ListOver ==
  ASSUME NEW S, NEW T, NEW s \in Seq(S), ToSet(s) \subseteq T
  PROVE  s \in Seq(T)
<1>1. Len(s) \in Nat /\ s = [i \in 1..Len(s) |-> s[i]] /\ \A i \in 1..Len(s) : s[i] \in T
  BY DEF ToSet
<1>2. s \in [1..Len(s) -> T]
  BY <1>1
<1> QED BY <1>1, <1>2

LEMMA ListedNames ==
  /\ Listed \subseteq Names
  /\ \A s \in Seq(Listed) : s \in Seq(Names)
<1>1. Listed \subseteq Names
  BY AlphabetAssumption DEF Listed, ToSet
<1>2. ASSUME NEW s \in Seq(Listed) PROVE s \in Seq(Names)
  <2>1. ToSet(s) \subseteq Listed
    BY DEF ToSet
  <2> QED BY <1>1, <2>1, ListOver
<1> QED BY <1>1, <1>2

\* The names that a page lists, each of them once.
LEMMA ListingIs ==
  ASSUME NEW ks \in Seq(Paths), NoDoubles(ks), NEW tail \in Paths,
         \A k \in ToSet(ks) : ToSet(k) \subseteq Listed
  PROVE  LET w == WithoutSlash(tail)
         IN  /\ Files(ks, tail) \in Seq(Names) /\ NoDoubles(Files(ks, tail))
             /\ ToSet(Files(ks, tail)) = FileNamesIn(w, ToSet(ks))
             /\ Folders(ks, tail) \in Seq(Names) /\ NoDoubles(Folders(ks, tail))
             /\ ToSet(Folders(ks, tail)) = FolderNamesIn(w, ToSet(ks))
<1> DEFINE w == WithoutSlash(tail)
           K == ToSet(ks)
           rests == Rests(ks, tail)
<1>1. w \in Seq(Names)
  BY FolderOf
<1>2. /\ rests \in Seq(Paths) /\ NoDoubles(rests)
      /\ ToSet(rests) = {r \in Paths : w \o r \in K}
  BY RestsAre
<1> HIDE DEF w, K, rests
<1>3. \A b \in Names : <<b>> \in Paths /\ Len(<<b>>) = 1 /\ Head(<<b>>) = b
  BY DEF Paths
<1>4. ASSUME NEW r \in ToSet(rests) PROVE r \in Paths /\ Head(r) \in Listed
  <2>1. r \in Paths /\ w \o r \in K
    BY <1>2
  <2>2. Len(w) + 1 \in DOMAIN (w \o r) /\ (w \o r)[Len(w) + 1] = Head(r)
    BY <1>1, <2>1 DEF Paths
  <2>3. ToSet(w \o r) \subseteq Listed
    BY <2>1 DEF K
  <2> QED BY <2>1, <2>2, <2>3 DEF ToSet
<1>5. /\ FileNames(rests) \in Seq(Names) /\ NoDoubles(FileNames(rests))
      /\ ToSet(FileNames(rests)) = {b \in Names : <<b>> \in ToSet(rests)}
      /\ FolderNames(rests) \in Seq(Names)
      /\ ToSet(FolderNames(rests)) =
           {a \in Names : \E r \in ToSet(rests) : Len(r) > 1 /\ Head(r) = a}
  BY <1>2, NamesAre
<1>6. ToSet(FileNames(rests)) = FileNamesIn(w, K)
  BY <1>2, <1>3, <1>5 DEF FileNamesIn
<1>7. ToSet(FolderNames(rests)) = FolderNamesIn(w, K)
  BY <1>2, <1>5 DEF FolderNamesIn
<1>8. FileNames(rests) \in Seq(Listed) /\ FolderNames(rests) \in Seq(Listed)
  <2>1. ToSet(FileNames(rests)) \subseteq Listed
    BY <1>3, <1>4, <1>5
  <2>2. ToSet(FolderNames(rests)) \subseteq Listed
    BY <1>4, <1>5
  <2> QED BY <1>5, <2>1, <2>2, ListOver
<1> DEFINE fs == Sorted(FileNames(rests))
           gs == Sorted(FolderNames(rests))
<1>9. fs \in Seq(Listed) /\ ToSet(fs) = FileNamesIn(w, K) /\ NoDoubles(fs)
  BY <1>5, <1>6, <1>8, SortedIs
<1>10. gs \in Seq(Listed) /\ ToSet(gs) = FolderNamesIn(w, K) /\ Ordered(gs)
  BY <1>7, <1>8, SortedIs
<1>11. Dedup(gs) \in Seq(Listed) /\ ToSet(Dedup(gs)) = FolderNamesIn(w, K) /\ NoDoubles(Dedup(gs))
  BY <1>10, DedupIs
<1>12. Files(ks, tail) = fs /\ Folders(ks, tail) = Dedup(gs)
  BY DEF Files, Folders, rests
<1> QED BY <1>9, <1>11, <1>12, ListedNames DEF w, K

\* A path in the folder w, with and without a suffix.
LEMMA InFolder ==
  ASSUME NEW w \in Seq(Names), NEW b \in Names
  PROVE  /\ w \o <<b>> \in Paths /\ Len(w \o <<b>>) = Len(w) + 1
         /\ Last(w \o <<b>>) = b /\ Front(w \o <<b>>) = w
         /\ (w \o <<b>>)[Len(w) + 1] = b
         /\ \A s \in Parts : /\ Append(b, s) \in Names /\ Append(b, s) # Empty
                             /\ WithSuffix(w \o <<b>>, s) = w \o <<Append(b, s)>>
<1> DEFINE u == w \o <<b>>
<1>1. /\ u \in Seq(Names) /\ Len(u) = Len(w) + 1 /\ Len(w) \in Nat /\ u[Len(w) + 1] = b
      /\ \A i \in 1..Len(w) : u[i] = w[i]
  OBVIOUS
<1> HIDE DEF u
<1>2. Last(u) = b /\ u # <<>>
  BY <1>1 DEF Last
<1>3. Front(u) = w
  <2>1. Front(u) \in Seq(Names) /\ Len(Front(u)) = Len(w) /\ \A i \in 1..Len(w) : Front(u)[i] = u[i]
    BY <1>1, Fronts
  <2> QED BY <1>1, <2>1
<1>4. ASSUME NEW s \in Parts
      PROVE  Append(b, s) \in Names /\ Append(b, s) # Empty /\ WithSuffix(u, s) = w \o <<Append(b, s)>>
  <2>1. b \in Seq(Parts) /\ Len(b) \in Nat /\ Len(b) >= 1
    BY DEF Names
  <2>2. Append(b, s) \in Seq(Parts) /\ Len(Append(b, s)) = Len(b) + 1
    BY <2>1
  <2>3. Len(Empty) = 1
    BY DEF Empty
  <2> DEFINE x == Append(b, s)
  <2>4. x \in Names /\ x # Empty
    <3>1. x \in Seq(Parts) /\ Len(x) = Len(b) + 1
      BY <2>2
    <3> HIDE DEF x
    <3>2. x # <<>> /\ x # Empty
      BY <2>1, <2>3, <3>1
    <3> QED BY <3>1, <3>2 DEF Names
  <2> HIDE DEF x
  <2>5. Append(w, x) = w \o <<x>>
    BY <2>4
  <2> QED BY <1>2, <1>3, <2>4, <2>5 DEF WithSuffix, x
<1> QED BY <1>1, <1>2, <1>3, <1>4 DEF u, Paths

LEMMA Counted ==
  ASSUME NEW S, NEW s \in Seq(S), NoDoubles(s)
  PROVE  Cardinality(ToSet(s)) = Len(s)
<1> DEFINE n == Len(s)
<1>1. n \in Nat /\ DOMAIN s = 1..n /\ s \in [1..n -> ToSet(s)]
  BY DEF ToSet
<1>2. IsFiniteSet(1..n) /\ Cardinality(1..n) = n
  <2>1. 1 \in Int /\ n \in Int
    BY <1>1
  <2>2. IsFiniteSet(1..n) /\ Cardinality(1..n) = IF 1 > n THEN 0 ELSE n - 1 + 1
    BY <2>1, FS_Interval
  <2> QED BY <1>1, <2>2
<1>3. s \in Injection(1..n, ToSet(s))
  BY <1>1 DEF NoDoubles, Injection, IsInjective
<1>4. s \in Surjection(1..n, ToSet(s))
  BY <1>1 DEF Surjection, ToSet
<1> QED BY <1>2, <1>3, <1>4, FS_Surjection

\* A data directory that is a file has the empty key and no other; no other key
\* has an empty name.
LEMMA EmptyKey ==
  ASSUME NEW line \in CommandLines, NEW k \in Keys(DataOf(line)), Empty \in ToSet(k)
  PROVE  k = <<Empty>> /\ Keys(DataOf(line)) = {<<Empty>>}
<1> DEFINE data == DataOf(line)
           D == WithoutSlash(data)
           w == Len(D)
           Good(f) == Walked(data, f.path) /\ Supported(Last(f.path)) /\ f.opens
<1>1. data \in Paths /\ D \in Seq(Names)
  BY DirectoryIsPath
<1>2. \A f \in Disk : /\ f.path \in Paths /\ Empty \notin ToSet(f.path)
                      /\ f.opens => \A g \in Disk : ~IsStrictPrefix(f.path, g.path)
  BY DiskAssumption
<1>3. \A x \in Keys(data) : \E f \in Disk : Good(f) /\ x = Relative(data, f.path)
  BY DEF Keys
<1>4. \A f \in Disk : Good(f) => IsPrefix(D, f.path)
  BY DEF Walked
<1> HIDE DEF D, Good
<1>5. PICK f \in Disk : Good(f) /\ k = Relative(data, f.path)
  BY <1>3
<1>6. /\ w \in Nat /\ w <= Len(f.path) /\ k \in Paths /\ f.path \in Seq(Names)
      /\ Len(f.path) = w => k = <<Empty>>
      /\ Len(f.path) > w => /\ Len(k) = Len(f.path) - w
                            /\ \A i \in 1..Len(k) : k[i] = f.path[w + i]
  BY <1>1, <1>2, <1>4, <1>5, KeyOfFile DEF D, Paths
<1>7. Len(f.path) = w
  <2> SUFFICES ASSUME Len(f.path) > w PROVE FALSE
    BY <1>6
  <2>1. PICK i \in 1..Len(k) : k[i] = Empty
    BY <1>6 DEF ToSet, Paths
  <2>2. w + i \in 1..Len(f.path) /\ f.path[w + i] = Empty
    BY <1>6, <2>1
  <2> QED BY <1>2, <1>6, <2>2 DEF ToSet
<1>8. ASSUME NEW other \in Keys(data) PROVE other = <<Empty>>
  <2>1. PICK g \in Disk : Good(g) /\ other = Relative(data, g.path)
    BY <1>3
  <2>2. w <= Len(g.path) /\ g.path \in Seq(Names) /\ (Len(g.path) = w => other = <<Empty>>)
    BY <1>1, <1>2, <1>4, <2>1, KeyOfFile DEF D, Paths
  <2>3. /\ \A j \in 1..w : D[j] = f.path[j]
        /\ \A j \in 1..w : D[j] = g.path[j]
    BY <1>1, <1>4, <1>5, <1>6, <2>1, <2>2, Beginnings
  <2>4. Len(g.path) > w => IsStrictPrefix(f.path, g.path)
    BY <1>6, <1>7, <2>2, <2>3, Beginnings
  <2>5. ~IsStrictPrefix(f.path, g.path)
    BY <1>2, <1>5 DEF Good
  <2> QED BY <1>6, <2>2, <2>4, <2>5
<1> QED BY <1>6, <1>7, <1>8

LEMMA ShortLists ==
  ASSUME NEW S, NEW s \in Seq(S)
  PROVE  /\ ToSet(s) = {} => s = <<>>
         /\ \A x : ToSet(s) = {x} /\ Len(s) = 1 => s = <<x>>
<1>1. Len(s) \in Nat /\ \A i \in 1..Len(s) : s[i] \in ToSet(s)
  BY DEF ToSet
<1>2. ASSUME ToSet(s) = {} PROVE s = <<>>
  <2>1. ~(1 <= Len(s))
    BY <1>1, <1>2
  <2>2. Len(s) = 0
    BY <1>1, <2>1
  <2> QED BY <2>2
<1>3. ASSUME NEW x, ToSet(s) = {x}, Len(s) = 1 PROVE s = <<x>>
  <2>1. s[1] = x
    BY <1>1, <1>3
  <2> QED BY <1>3, <2>1
<1> QED BY <1>2, <1>3

\* The names in a folder that has a page do not collide, neither with each
\* other nor with the URLs of datasets.
LEMMA NamesApart ==
  ASSUME NEW line \in CommandLines, NEW ks \in Seq(Paths), NoDoubles(ks),
         ToSet(ks) = Keys(DataOf(line)), NEW tail \in Paths, IsFolder(ks, tail)
  PROVE  LET w == WithoutSlash(tail)
             A == FolderNamesIn(w, ToSet(ks))
             B == FileNamesIn(w, ToSet(ks))
         IN  /\ Empty \notin A /\ Empty \notin B
             /\ \A a \in A, b \in B : a # b /\ \A s \in UrlSuffixes : a # Append(b, s)
             /\ \A b, c \in B : \A s \in UrlSuffixes : b # Append(c, s)
<1> DEFINE w == WithoutSlash(tail)
           K == Keys(DataOf(line))
           A == FolderNamesIn(w, K)
           B == FileNamesIn(w, K)
<1>1. w \in Seq(Names) /\ Len(w) \in Nat /\ K \subseteq Paths /\ UrlSuffixes \subseteq Parts
  <2>1. WithoutSlash(tail) \in Seq(Names) /\ K \subseteq Paths
    BY FolderOf, KeysAreNames
  <2>2. UrlSuffixes \subseteq Parts
    BY PartsAssumption DEF UrlSuffixes
  <2> HIDE DEF K
  <2> QED BY <2>1, <2>2
<1>2. ASSUME NEW b \in B PROVE b \in Names /\ w \o <<b>> \in K
  BY DEF FileNamesIn
<1>3. ASSUME NEW a \in A
      PROVE  a \in Names /\ \E r \in Paths : Len(r) > 1 /\ Head(r) = a /\ w \o r \in K
  BY DEF FolderNamesIn
<1>4. ASSUME NEW r \in Paths
      PROVE  /\ w \o r \in Seq(Names) /\ Len(w \o r) = Len(w) + Len(r) /\ Len(r) \in Nat
             /\ (w \o r)[Len(w) + 1] = Head(r) /\ Head(r) \in ToSet(w \o r)
             /\ \A i \in 1..Len(w) : (w \o r)[i] = w[i]
  <2>1. r \in Seq(Names) /\ r # <<>>
    BY DEF Paths
  <2> QED BY <1>1, <2>1 DEF ToSet
<1>5. Empty \notin B
  <2> SUFFICES ASSUME Empty \in B PROVE FALSE
    OBVIOUS
  <2>1. Empty \in Names /\ w \o <<Empty>> \in K /\ Empty \in ToSet(w \o <<Empty>>)
    <3>1. Empty \in Names /\ w \o <<Empty>> \in K
      BY <1>2
    <3>2. (w \o <<Empty>>)[Len(w) + 1] = Empty /\ Len(w) + 1 \in DOMAIN (w \o <<Empty>>)
      BY <1>1, <3>1
    <3> QED BY <3>1, <3>2 DEF ToSet
  <2>2. w \o <<Empty>> = <<Empty>> /\ K = {<<Empty>>}
    BY <2>1, EmptyKey
  <2>3. w = <<>>
    <3>1. Len(w) + 1 = 1
      BY <1>1, <2>1, <2>2, InFolder
    <3> QED BY <1>1, <3>1
  <2>4. B = {Empty}
    <3>1. ASSUME NEW b \in B PROVE b = Empty
      <4>1. b \in Names /\ w \o <<b>> = <<Empty>>
        BY <1>2, <2>2
      <4>2. (w \o <<b>>)[Len(w) + 1] = b
        BY <1>1, <4>1, InFolder
      <4>3. Len(w) + 1 = 1
        BY <2>3
      <4>4. <<Empty>>[1] = Empty
        OBVIOUS
      <4>5. <<Empty>>[1] = b
        BY <4>1, <4>2, <4>3, Zenon
      <4> QED BY <4>4, <4>5
    <3> QED BY <3>1
  <2>5. A = {}
    <3> SUFFICES ASSUME NEW a \in A PROVE FALSE
      OBVIOUS
    <3>1. PICK r \in Paths : Len(r) > 1 /\ w \o r \in K
      BY <1>3
    <3>2. Len(w \o r) = 1
      BY <2>2, <3>1
    <3> QED BY <1>1, <1>4, <3>1, <3>2
  <2>6. /\ Files(ks, tail) \in Seq(Names) /\ NoDoubles(Files(ks, tail))
        /\ ToSet(Files(ks, tail)) = {Empty}
        /\ Folders(ks, tail) \in Seq(Names) /\ ToSet(Folders(ks, tail)) = {}
    <3>1. \A k \in ToSet(ks) : ToSet(k) \subseteq Listed
      BY NamesAssumption DEF Listed
    <3> QED BY <2>4, <2>5, <3>1, ListingIs
  <2>7. Folders(ks, tail) = <<>>
    BY <2>6, ShortLists
  <2>8. Files(ks, tail) = <<Empty>>
    <3>1. Len(Files(ks, tail)) = 1
      <4>1. Cardinality({Empty}) = 1
        BY FS_Singleton
      <4> QED BY <2>6, <4>1, Counted
    <3> QED BY <2>6, <3>1, ShortLists
  <2>9. AsFolder(tail) = <<Empty>>
    <3>1. tail \in Seq(Names) /\ Len(tail) >= 1
      BY DEF Paths
    <3>2. Last(tail) = Empty /\ Front(tail) = <<>>
      BY <2>3, <3>1 DEF WithoutSlash
    <3>3. tail = <<Empty>>
      <4>1. Append(Front(tail), Last(tail)) = tail
        BY <3>1, Fronts
      <4>2. Append(<<>>, Empty) = <<Empty>>
        OBVIOUS
      <4> QED BY <3>2, <4>1, <4>2
    <3> QED BY <3>2, <3>3 DEF AsFolder
  <2> QED BY <2>7, <2>8, <2>9 DEF IsFolder
<1>6. Empty \notin A
  <2> SUFFICES ASSUME Empty \in A PROVE FALSE
    OBVIOUS
  <2>1. PICK r \in Paths : Len(r) > 1 /\ Head(r) = Empty /\ w \o r \in K
    BY <1>3
  <2>2. w \o r = <<Empty>>
    BY <1>4, <2>1, EmptyKey
  <2>3. Len(w \o r) = 1
    BY <2>2
  <2> QED BY <1>1, <1>4, <2>1, <2>3
<1>7. ASSUME NEW x \in Names, NEW r \in Paths, Len(r) > 1, Head(r) = x
      PROVE  IsStrictPrefix(w \o <<x>>, w \o r)
  <2>1. /\ w \o <<x>> \in Seq(Names) /\ Len(w \o <<x>>) = Len(w) + 1
        /\ (w \o <<x>>)[Len(w) + 1] = x /\ \A i \in 1..Len(w) : (w \o <<x>>)[i] = w[i]
    BY <1>1
  <2>2. \A i \in 1..(Len(w) + 1) : i \in 1..Len(w) \/ i = Len(w) + 1
    BY <1>1
  <2> DEFINE u == w \o <<x>>
             v == w \o r
  <2>3. /\ u \in Seq(Names) /\ v \in Seq(Names) /\ Len(u) < Len(v)
        /\ \A i \in 1..Len(u) : u[i] = v[i]
    BY <1>1, <1>4, <1>7, <2>1, <2>2
  <2> HIDE DEF u, v
  <2>4. IsStrictPrefix(u, v)
    BY <2>3, Beginnings
  <2> QED BY <2>4 DEF u, v
<1>8. ASSUME NEW b \in B
      PROVE  /\ w \o <<b>> # <<Empty>>
             /\ \A s \in UrlSuffixes : WithSuffix(w \o <<b>>, s) = w \o <<Append(b, s)>>
             /\ Last(w \o <<b>>) = b
  <2>1. b \in Names /\ b # Empty
    BY <1>2, <1>5
  <2>2. (w \o <<b>>)[Len(w) + 1] = b /\ Len(w \o <<b>>) = Len(w) + 1
    BY <1>1, <2>1, InFolder
  <2>3. w \o <<b>> # <<Empty>>
    <3> SUFFICES ASSUME w \o <<b>> = <<Empty>> PROVE FALSE
      OBVIOUS
    <3>1. Len(w) + 1 = 1
      <4>1. Len(<<Empty>>) = 1
        OBVIOUS
      <4> QED BY <2>2, <4>1
    <3>2. b = Empty
      <4>1. <<Empty>>[1] = Empty
        OBVIOUS
      <4> QED BY <2>2, <3>1, <4>1
    <3> QED BY <2>1, <3>2
  <2> QED BY <1>1, <2>1, <2>3, InFolder
<1>9. ASSUME NEW a \in A, NEW b \in B
      PROVE  a # b /\ \A s \in UrlSuffixes : a # Append(b, s)
  <2>1. PICK r \in Paths : Len(r) > 1 /\ Head(r) = a /\ w \o r \in K
    BY <1>3
  <2>2. IsStrictPrefix(w \o <<a>>, w \o r)
    BY <1>3, <1>7, <2>1
  <2>3. ~IsStrictPrefix(w \o <<b>>, w \o r)
    BY <1>2, <1>8, <2>1, KeysAreNames
  <2>4. \A s \in UrlSuffixes : ~IsStrictPrefix(w \o <<Append(b, s)>>, w \o r)
    <3>1. \A s \in UrlSuffixes : ~IsStrictPrefix(WithSuffix(w \o <<b>>, s), w \o r)
      BY <1>2, <2>1, UrlsAssumption
    <3> QED BY <1>8, <3>1
  <2> QED BY <2>2, <2>3, <2>4
<1>10. ASSUME NEW b \in B, NEW c \in B, NEW s \in UrlSuffixes PROVE b # Append(c, s)
  <2>1. Supported(b)
    BY <1>2, <1>8, KeysAreNames
  <2>2. Last(b) # s
    BY <1>2, <2>1, NamesOfDatasets
  <2>3. Last(Append(c, s)) = s
    <3>1. c \in Seq(Parts) /\ s \in Parts
      BY <1>1, <1>2 DEF Names
    <3> QED BY <3>1 DEF Last
  <2> QED BY <2>2, <2>3
<1> HIDE DEF A, B, w
<1> QED BY <1>5, <1>6, <1>9, <1>10 DEF A, B, w

LEMMA TwoOf ==
  ASSUME NEW S, NEW x \in S, NEW y \in S
  PROVE  /\ <<x, y>> \in Seq(S) /\ ToSet(<<x, y>>) = {x, y} /\ Append(<<x>>, y) = <<x, y>>
         /\ x # y => NoDoubles(<<x, y>>)
<1> DEFINE s == <<x, y>>
           u == Append(<<x>>, y)
<1>1. s \in Seq(S) /\ DOMAIN s = {1, 2} /\ Len(s) = 2 /\ s[1] = x /\ s[2] = y
  OBVIOUS
<1>2. u \in Seq(S) /\ Len(u) = 2 /\ u[1] = x /\ u[2] = y
  OBVIOUS
<1> HIDE DEF s, u
<1>3. ToSet(s) = {x, y}
  BY <1>1 DEF ToSet
<1>4. ASSUME x # y PROVE NoDoubles(s)
  <2>1. 1..Len(s) = {1, 2}
    BY <1>1
  <2> QED BY <1>1, <1>4, <2>1 DEF NoDoubles
<1>5. u = s
  BY <1>1, <1>2
<1> QED BY <1>1, <1>3, <1>4, <1>5 DEF s, u

LEMMA ThreeOf ==
  ASSUME NEW S, NEW x \in S, NEW y \in S, NEW z \in S
  PROVE  /\ <<x, y, z>> \in Seq(S) /\ ToSet(<<x, y, z>>) = {x, y, z}
         /\ x # y /\ x # z /\ y # z => NoDoubles(<<x, y, z>>)
<1> DEFINE t == <<x, y, z>>
<1>1. /\ t \in Seq(S) /\ DOMAIN t = {1, 2, 3} /\ 1..Len(t) = {1, 2, 3}
      /\ t[1] = x /\ t[2] = y /\ t[3] = z
  OBVIOUS
<1> HIDE DEF t
<1>2. ToSet(t) = {x, y, z} /\ (x # y /\ x # z /\ y # z => NoDoubles(t))
  BY <1>1 DEF ToSet, NoDoubles
<1> QED BY <1>1, <1>2 DEF t

LEMMA LongerIsOther ==
  ASSUME NEW s, NEW t, Len(s) \in Nat, Len(s) >= 2, Len(t) = 1
  PROVE  s # t
<1> SUFFICES ASSUME s = t PROVE FALSE
  OBVIOUS
<1> DEFINE n == Len(s)
<1>1. n = 1
  OBVIOUS
<1>2. n \in Nat /\ n >= 2
  OBVIOUS
<1> HIDE DEF n
<1> QED BY <1>1, <1>2

LEMMA AppendOnce ==
  ASSUME NEW b \in Names, NEW c \in Names, NEW s \in Parts, NEW t \in Parts
  PROVE  /\ Append(b, s) \in Names /\ Append(b, s) # Empty /\ b # Append(b, s)
         /\ Append(b, s) = Append(c, t) => b = c /\ s = t
<1> DEFINE x == Append(b, s)
           y == Append(c, t)
<1>1. b \in Seq(Parts) /\ c \in Seq(Parts) /\ Len(b) \in Nat /\ Len(c) \in Nat /\ Len(b) >= 1
  BY DEF Names
<1>2. /\ x \in Seq(Parts) /\ Len(x) = Len(b) + 1 /\ x[Len(b) + 1] = s
      /\ \A i \in 1..Len(b) : x[i] = b[i]
  BY <1>1
<1>3. /\ y \in Seq(Parts) /\ Len(y) = Len(c) + 1 /\ y[Len(c) + 1] = t
      /\ \A i \in 1..Len(c) : y[i] = c[i]
  BY <1>1
<1>4. Len(Empty) = 1
  BY DEF Empty
<1> HIDE DEF x, y
<1>5. x # <<>> /\ x # Empty /\ x # b
  BY <1>1, <1>2, <1>4
<1>6. ASSUME x = y PROVE b = c /\ s = t
  BY <1>1, <1>2, <1>3, <1>6
<1> QED BY <1>2, <1>5, <1>6 DEF x, y, Names

\* The links of a page, for the folders gs and the files fs of the folder w.
LinksOf(w, gs, fs) ==
  << <<Empty>>, Append(DataPath, Empty) >>
  \o [i \in DOMAIN gs |-> PathOf(w, gs[i])]
  \o FlattenSeq([i \in DOMAIN fs |-> DatasetLinks(PathOf(w, fs[i]))])

LEMMA LinksAre ==
  ASSUME NEW w \in Seq(Names), NEW gs \in Seq(Names), NEW fs \in Seq(Names)
  PROVE  /\ LinksOf(w, gs, fs) \in Seq(Paths)
         /\ ToSet(LinksOf(w, gs, fs)) =
              { <<Empty>>, Append(DataPath, Empty) }
              \cup { PathOf(w, a) : a \in ToSet(gs) }
              \cup UNION { ToSet(DatasetLinks(PathOf(w, b))) : b \in ToSet(fs) }
         /\ /\ NoDoubles(gs) /\ NoDoubles(fs)
            /\ Empty \notin ToSet(gs) /\ Empty \notin ToSet(fs)
            /\ \A a \in ToSet(gs), b \in ToSet(fs) :
                  a # b /\ \A s \in UrlSuffixes : a # Append(b, s)
            /\ \A b, c \in ToSet(fs) : \A s \in UrlSuffixes : b # Append(c, s)
            => NoDoubles(LinksOf(w, gs, fs))
<1> DEFINE P(x) == PathOf(w, x)
           front == <<Empty>>
           data == Append(DataPath, Empty)
           two == <<front, data>>
           dirs == [i \in DOMAIN gs |-> P(gs[i])]
           sets == [i \in DOMAIN fs |-> DatasetLinks(P(fs[i]))]
           das(b) == Append(b, "das")
           dds(b) == Append(b, "dds")
           N(b) == {b, das(b), dds(b)}
           W == DataPath \o w
<1>1. "das" \in Parts /\ "dds" \in Parts /\ "das" \in UrlSuffixes /\ "dds" \in UrlSuffixes
  BY PartsAssumption DEF UrlSuffixes
<1>2. W \in Seq(Names) /\ Len(W) >= 1 /\ Len(W) \in Nat
  <2>1. <<"data">> \in Names
    <3>1. "data" \in Parts
      BY PartsAssumption
    <3> QED BY <3>1, Singletons, Zenon DEF Names
  <2> DEFINE d == <<"data">>
  <2>2. DataPath = <<d>>
    BY DEF DataPath
  <2> HIDE DEF d
  <2>3. d \in Names
    BY <2>1 DEF d
  <2> QED BY <2>2, <2>3
<1>3. ASSUME NEW x \in Names
      PROVE  P(x) \in Paths /\ Len(P(x)) \in Nat /\ Len(P(x)) >= 2 /\ Last(P(x)) = x
  <2>1. P(x) = W \o <<x>>
    BY DEF PathOf
  <2> HIDE DEF W
  <2>2. W \o <<x>> \in Paths /\ Len(W \o <<x>>) = Len(W) + 1 /\ Last(W \o <<x>>) = x
    BY <1>2, InFolder
  <2> QED BY <1>2, <2>1, <2>2
<1>4. ASSUME NEW b \in Names
      PROVE  /\ das(b) \in Names /\ dds(b) \in Names /\ das(b) # Empty /\ dds(b) # Empty
             /\ b # das(b) /\ b # dds(b) /\ das(b) # dds(b)
             /\ DatasetLinks(P(b)) = <<P(b), P(das(b)), P(dds(b))>>
  <2>1. /\ das(b) \in Names /\ dds(b) \in Names /\ das(b) # Empty /\ dds(b) # Empty
        /\ b # das(b) /\ b # dds(b) /\ das(b) # dds(b)
    BY <1>1, AppendOnce
  <2>2. WithSuffix(P(b), "das") = P(das(b)) /\ WithSuffix(P(b), "dds") = P(dds(b))
    <3>1. \A x : P(x) = W \o <<x>>
      BY DEF PathOf
    <3> HIDE DEF W, P
    <3> QED BY <1>1, <1>2, <3>1, InFolder, ZenonT(40)
  <2> QED BY <2>1, <2>2 DEF DatasetLinks
<1>5. front \in Paths /\ data \in Paths /\ Len(front) = 1 /\ Len(data) = 2 /\ Last(data) = Empty
  <2>1. Empty \in Names /\ front \in Paths /\ Len(front) = 1
    BY NamesOfDatasets
  <2>2. data = << <<"data">>, Empty >>
    <3> DEFINE d == <<"data">>
    <3>1. DataPath = <<d>>
      BY DEF DataPath
    <3> HIDE DEF d
    <3>2. d \in Names
      <4>1. "data" \in Parts
        BY PartsAssumption
      <4> QED BY <4>1, Singletons, Zenon DEF Names, d
    <3>3. Append(<<d>>, Empty) = <<d, Empty>>
      BY <2>1, <3>2, TwoOf
    <3> QED BY <3>1, <3>3 DEF d
  <2>3. <<"data">> \in Names
    <3>1. "data" \in Parts
      BY PartsAssumption
    <3> QED BY <3>1, Singletons, Zenon DEF Names
  <2>4. << <<"data">>, Empty >> \in Paths
    BY <2>1, <2>3, Singletons, Zenon DEF Paths
  <2>5. Len(data) = 2 /\ Last(data) = Empty
    BY <2>2 DEF Last
  <2> QED BY <2>1, <2>2, <2>4, <2>5
<1>6. DOMAIN gs = 1..Len(gs) /\ Len(gs) \in Nat /\ DOMAIN fs = 1..Len(fs) /\ Len(fs) \in Nat
  OBVIOUS
<1>7. \A x, y \in Names : /\ P(x) = P(y) => x = y
                          /\ P(x) # front /\ (P(x) = data => x = Empty)
  <2> SUFFICES ASSUME NEW x \in Names, NEW y \in Names
               PROVE  /\ P(x) = P(y) => x = y
                      /\ P(x) # front /\ (P(x) = data => x = Empty)
    OBVIOUS
  <2> HIDE DEF P, data, front
  <2>1. P(x) # front
    BY <1>3, <1>5, LongerIsOther, Zenon
  <2> QED BY <1>3, <1>5, <2>1
<1>8. front # data
  <2>1. Len(data) \in Nat /\ Len(data) >= 2 /\ Len(front) = 1
    BY <1>5
  <2> QED BY <2>1, LongerIsOther, Zenon
<1> HIDE DEF P, front, data, das, dds, W
<1>9. two \in Seq(Paths) /\ ToSet(two) = {front, data} /\ NoDoubles(two)
  BY <1>5, <1>8, TwoOf
<1>10. /\ dirs \in Seq(Paths) /\ ToSet(dirs) = {P(a) : a \in ToSet(gs)}
       /\ NoDoubles(gs) => NoDoubles(dirs)
  <2>1. \A i \in 1..Len(gs) : gs[i] \in Names /\ dirs[i] = P(gs[i]) /\ P(gs[i]) \in Paths
    BY <1>3, <1>6
  <2>2. dirs \in Seq(Paths) /\ Len(dirs) = Len(gs) /\ DOMAIN dirs = 1..Len(gs)
    <3>1. dirs \in [1..Len(gs) -> Paths]
      BY <1>6, <2>1
    <3> QED BY <1>6, <3>1
  <2> HIDE DEF dirs
  <2>3. ToSet(dirs) = {P(a) : a \in ToSet(gs)}
    <3>1. ASSUME NEW x \in ToSet(dirs) PROVE x \in {P(a) : a \in ToSet(gs)}
      BY <1>6, <2>1, <2>2 DEF ToSet
    <3>2. ASSUME NEW a \in ToSet(gs) PROVE P(a) \in ToSet(dirs)
      BY <1>6, <2>1, <2>2 DEF ToSet
    <3> QED BY <3>1, <3>2
  <2>4. ASSUME NoDoubles(gs) PROVE NoDoubles(dirs)
    BY <1>7, <2>1, <2>2, <2>4 DEF NoDoubles
  <2> QED BY <2>2, <2>3, <2>4
<1>11. ASSUME NEW b \in Names
       PROVE  /\ DatasetLinks(P(b)) \in Seq(Paths) /\ NoDoubles(DatasetLinks(P(b)))
              /\ ToSet(DatasetLinks(P(b))) = {P(b), P(das(b)), P(dds(b))}
  <2>1. P(b) \in Paths /\ P(das(b)) \in Paths /\ P(dds(b)) \in Paths
    BY <1>3, <1>4
  <2>2. P(b) # P(das(b)) /\ P(b) # P(dds(b)) /\ P(das(b)) # P(dds(b))
    BY <1>4, <1>7
  <2>3. DatasetLinks(P(b)) = <<P(b), P(das(b)), P(dds(b))>>
    BY <1>4
  <2> DEFINE x == P(b)
             y == P(das(b))
             z == P(dds(b))
  <2>4. x \in Paths /\ y \in Paths /\ z \in Paths /\ x # y /\ x # z /\ y # z
    BY <2>1, <2>2
  <2>5. DatasetLinks(P(b)) = <<x, y, z>>
    BY <2>3
  <2> HIDE DEF x, y, z
  <2>6. <<x, y, z>> \in Seq(Paths) /\ ToSet(<<x, y, z>>) = {x, y, z}
    BY <2>4, ThreeOf
  <2>7. NoDoubles(<<x, y, z>>)
    BY <2>4, ThreeOf
  <2> QED BY <2>5, <2>6, <2>7 DEF x, y, z
<1>12. \A i \in 1..Len(fs) : fs[i] \in Names /\ sets[i] = DatasetLinks(P(fs[i]))
  BY <1>6
<1>13. sets \in Seq(Seq(Paths)) /\ Len(sets) = Len(fs)
  <2>1. sets \in [1..Len(fs) -> Seq(Paths)]
    BY <1>6, <1>11
  <2> QED BY <1>6, <2>1
<1> HIDE DEF sets
<1> DEFINE flat == FlattenSeq(sets)
<1>14. /\ flat \in Seq(Paths)
       /\ ToSet(flat) = UNION {ToSet(sets[i]) : i \in 1..Len(fs)}
       /\ (\A i, j \in 1..Len(fs) : i # j => ToSet(sets[i]) \cap ToSet(sets[j]) = {})
            => NoDoubles(flat)
  <2>1. \A i \in 1..Len(sets) : NoDoubles(sets[i])
    BY <1>11, <1>12, <1>13
  <2> QED BY <1>13, <2>1, FlattenedOnce
<1>15. ToSet(flat) = UNION {ToSet(DatasetLinks(P(b))) : b \in ToSet(fs)}
  <2>1. {ToSet(sets[i]) : i \in 1..Len(fs)} = {ToSet(DatasetLinks(P(b))) : b \in ToSet(fs)}
    <3>1. ASSUME NEW i \in 1..Len(fs)
          PROVE  \E b \in ToSet(fs) : ToSet(sets[i]) = ToSet(DatasetLinks(P(b)))
      BY <1>6, <1>12 DEF ToSet
    <3>2. ASSUME NEW b \in ToSet(fs)
          PROVE  \E i \in 1..Len(fs) : ToSet(DatasetLinks(P(b))) = ToSet(sets[i])
      <4>1. PICK i \in 1..Len(fs) : fs[i] = b
        BY <1>6 DEF ToSet
      <4> QED BY <1>12, <4>1
    <3> QED BY <3>1, <3>2
  <2> QED BY <1>14, <2>1
<1> HIDE DEF flat, two, dirs
<1> DEFINE start == two \o dirs
<1>16. /\ start \in Seq(Paths) /\ ToSet(start) = ToSet(two) \cup ToSet(dirs)
       /\ NoDoubles(two) /\ NoDoubles(dirs) /\ ToSet(two) \cap ToSet(dirs) = {} => NoDoubles(start)
  BY <1>9, <1>10, Joined
<1> HIDE DEF start
<1> DEFINE all == start \o flat
<1>17. /\ all \in Seq(Paths) /\ ToSet(all) = ToSet(start) \cup ToSet(flat)
       /\ NoDoubles(start) /\ NoDoubles(flat) /\ ToSet(start) \cap ToSet(flat) = {} => NoDoubles(all)
  BY <1>14, <1>16, Joined
<1>18. LinksOf(w, gs, fs) = all
  BY DEF LinksOf, start, two, dirs, flat, sets, front, data, P
<1> HIDE DEF all
<1>19. ToSet(all) = {front, data} \cup {P(a) : a \in ToSet(gs)}
                    \cup UNION {ToSet(DatasetLinks(P(b))) : b \in ToSet(fs)}
  BY <1>9, <1>10, <1>15, <1>16, <1>17
<1>20. ASSUME NoDoubles(gs), NoDoubles(fs), Empty \notin ToSet(gs), Empty \notin ToSet(fs),
              \A a \in ToSet(gs), b \in ToSet(fs) :
                 a # b /\ \A s \in UrlSuffixes : a # Append(b, s),
              \A b, c \in ToSet(fs) : \A s \in UrlSuffixes : b # Append(c, s)
       PROVE  NoDoubles(all)
  <2>1. ToSet(gs) \subseteq Names /\ ToSet(fs) \subseteq Names
    BY DEF ToSet
  <2>2. \A a \in ToSet(gs), b \in ToSet(fs) : a # b /\ a # das(b) /\ a # dds(b)
    BY <1>1, <1>20 DEF das, dds
  <2>3. \A b, c \in ToSet(fs) : b # das(c) /\ b # dds(c)
    BY <1>1, <1>20 DEF das, dds
  <2>4. ASSUME NEW b \in ToSet(fs), NEW c \in ToSet(fs), b # c
        PROVE  das(b) # das(c) /\ das(b) # dds(c) /\ dds(b) # das(c) /\ dds(b) # dds(c)
    <3>1. b \in Names /\ c \in Names /\ "das" # "dds"
      BY <2>1
    <3> QED BY <1>1, <2>4, <3>1, AppendOnce DEF das, dds
  <2>5. ToSet(two) \cap ToSet(dirs) = {}
    <3>1. ASSUME NEW a \in ToSet(gs) PROVE P(a) # front /\ P(a) # data
      BY <1>7, <1>20, <2>1
    <3> QED BY <1>9, <1>10, <3>1
  <2>6. ASSUME NEW b \in ToSet(fs)
        PROVE  ToSet(start) \cap ToSet(DatasetLinks(P(b))) = {}
    <3>1. b \in Names /\ b # Empty
      BY <1>20, <2>1
    <3>2. ASSUME NEW x \in {b, das(b), dds(b)} PROVE P(x) \notin ToSet(start)
      <4>1. x \in Names /\ x # Empty
        BY <1>4, <3>1
      <4>2. P(x) # front /\ P(x) # data
        BY <1>7, <4>1
      <4>3. ASSUME NEW a \in ToSet(gs) PROVE P(x) # P(a)
        BY <1>7, <2>1, <2>2, <4>1
      <4> QED BY <1>9, <1>10, <1>16, <4>2, <4>3
    <3> QED BY <1>11, <3>1, <3>2
  <2>7. ToSet(start) \cap ToSet(flat) = {}
    BY <1>15, <2>6
  <2>8. ASSUME NEW i \in 1..Len(fs), NEW j \in 1..Len(fs), i # j
        PROVE  ToSet(sets[i]) \cap ToSet(sets[j]) = {}
    <3> DEFINE b == fs[i]
               c == fs[j]
    <3>1. b \in ToSet(fs) /\ c \in ToSet(fs) /\ b # c
      BY <1>6, <1>20, <2>8 DEF ToSet, NoDoubles
    <3>2. ToSet(sets[i]) = {P(b), P(das(b)), P(dds(b))} /\ ToSet(sets[j]) = {P(c), P(das(c)), P(dds(c))}
      BY <1>11, <1>12
    <3> HIDE DEF b, c
    <3>3. ASSUME NEW x \in {b, das(b), dds(b)}, NEW y \in {c, das(c), dds(c)} PROVE P(x) # P(y)
      <4>1. x \in Names /\ y \in Names
        BY <1>4, <2>1, <3>1
      <4>2. x # y
        BY <2>3, <2>4, <3>1
      <4> QED BY <1>7, <4>1, <4>2
    <3> QED BY <3>2, <3>3
  <2> QED BY <1>9, <1>10, <1>14, <1>16, <1>17, <1>20, <2>5, <2>7, <2>8
<1>21. \A x : PathOf(w, x) = P(x)
  BY DEF P
<1> QED BY <1>17, <1>18, <1>19, <1>20, <1>21 DEF front, data

LEMMA DataPathIs == DataPath \in Seq(Names)
<1> DEFINE d == <<"data">>
<1>1. d \in Names
  <2>1. "data" \in Parts
    BY PartsAssumption
  <2> QED BY <2>1, Singletons, Zenon DEF Names
<1>2. DataPath = <<d>>
  BY DEF DataPath
<1> HIDE DEF d
<1> QED BY <1>1, <1>2

LEMMA UnderDataPath ==
  ASSUME NEW t \in Seq(Names), NEW u \in Seq(Names)
  PROVE  /\ (DataPath \o t) \o u = DataPath \o (t \o u)
         /\ DataPath \o t = DataPath \o u => t = u
<1> DEFINE s == DataPath
<1>1. s \in Seq(Names)
  BY DataPathIs
<1> HIDE DEF s
<1>2. /\ s \o t \in Seq(Names) /\ Len(s \o t) = Len(s) + Len(t)
      /\ \A i \in 1..Len(t) : (s \o t)[Len(s) + i] = t[i]
  BY <1>1
<1>3. /\ s \o u \in Seq(Names) /\ Len(s \o u) = Len(s) + Len(u)
      /\ \A i \in 1..Len(u) : (s \o u)[Len(s) + i] = u[i]
  BY <1>1
<1>4. Len(s) \in Nat /\ Len(t) \in Nat /\ Len(u) \in Nat
  BY <1>1
<1>5. ASSUME s \o t = s \o u PROVE t = u
  <2>1. Len(t) = Len(u)
    BY <1>2, <1>3, <1>4, <1>5
  <2> QED BY <1>2, <1>3, <1>5, <2>1
<1>6. (s \o t) \o u = s \o (t \o u)
  BY <1>1
<1> QED BY <1>5, <1>6 DEF s

\* What is below a folder, as the property counts it and as the page finds it.
LEMMA BelowIs ==
  ASSUME NEW ks \in Seq(Paths), NEW w \in Seq(Names)
  PROVE  LET folder == DataPath \o w
             below == { DataPath \o ks[i] : i \in { j \in DOMAIN ks :
                           IsStrictPrefix(folder, DataPath \o ks[j]) } }
             files == { p \in below : Len(p) = Len(folder) + 1 }
             folders == { SubSeq(p, 1, Len(folder) + 1) : p \in below \ files }
         IN  /\ files = { PathOf(w, b) : b \in FileNamesIn(w, ToSet(ks)) }
             /\ folders = { PathOf(w, a) : a \in FolderNamesIn(w, ToSet(ks)) }
<1> DEFINE folder == DataPath \o w
           below == { DataPath \o ks[i] : i \in { j \in DOMAIN ks :
                         IsStrictPrefix(folder, DataPath \o ks[j]) } }
           files == { p \in below : Len(p) = Len(folder) + 1 }
           folders == { SubSeq(p, 1, Len(folder) + 1) : p \in below \ files }
           n == Len(folder) + 1
           R == { r \in Paths : w \o r \in ToSet(ks) }
           A == FolderNamesIn(w, ToSet(ks))
           B == FileNamesIn(w, ToSet(ks))
<1>1. DataPath \in Seq(Names) /\ folder \in Seq(Names) /\ Len(folder) \in Nat
  BY DataPathIs
<1>2. \A r \in Paths : r \in Seq(Names) /\ Len(r) \in Nat /\ Len(r) >= 1 /\ Head(r) \in Names
  BY DEF Paths
<1>3. \A x : PathOf(w, x) = folder \o <<x>>
  BY DEF PathOf
<1> HIDE DEF folder
<1>4. ASSUME NEW p \in below PROVE \E r \in R : p = folder \o r
  <2>1. PICK i \in DOMAIN ks : p = DataPath \o ks[i] /\ IsStrictPrefix(folder, p)
    OBVIOUS
  <2>2. ks[i] \in Seq(Names) /\ ks[i] \in ToSet(ks) /\ p \in Seq(Names)
    <3>1. ks[i] \in Paths /\ ks[i] \in ToSet(ks)
      BY DEF ToSet
    <3>2. ks[i] \in Seq(Names)
      BY <1>2, <3>1
    <3> QED BY <1>1, <2>1, <3>1, <3>2
  <2>3. PICK r \in Paths : folder \o r = p
    BY <1>1, <2>1, <2>2, Parted
  <2>4. r \in Seq(Names) /\ w \o r \in Seq(Names)
    BY <1>2
  <2>5. folder \o r = DataPath \o (w \o r)
    BY <2>4, UnderDataPath DEF folder
  <2>6. w \o r = ks[i]
    <3>1. DataPath \o (w \o r) = DataPath \o ks[i]
      BY <2>1, <2>3, <2>5
    <3> QED BY <2>2, <2>4, <3>1, UnderDataPath, Zenon
  <2> QED BY <2>2, <2>3, <2>6
<1>5. ASSUME NEW r \in R PROVE folder \o r \in below
  <2>1. r \in Paths /\ w \o r \in ToSet(ks) /\ r \in Seq(Names)
    BY <1>2
  <2>2. PICK i \in DOMAIN ks : ks[i] = w \o r
    BY <2>1 DEF ToSet
  <2>3. folder \o r = DataPath \o ks[i]
    BY <2>1, <2>2, UnderDataPath DEF folder
  <2>4. IsStrictPrefix(folder, folder \o r)
    BY <1>1, <2>1, Continued
  <2> QED BY <2>3, <2>4
<1>6. ASSUME NEW r \in Paths
      PROVE  /\ Len(folder \o r) = n <=> Len(r) = 1
             /\ Len(r) = 1 => r = <<Head(r)>>
             /\ SubSeq(folder \o r, 1, n) = folder \o <<Head(r)>>
  <2>1. r \in Seq(Names) /\ Len(r) \in Nat /\ Len(r) >= 1 /\ Head(r) \in Names /\ Head(r) = r[1]
    BY <1>2
  <2> DEFINE u == folder \o r
             x == Head(r)
             v == folder \o <<x>>
  <2>2. /\ u \in Seq(Names) /\ Len(u) = Len(folder) + Len(r)
        /\ \A i \in 1..Len(folder) : u[i] = folder[i]
    BY <1>1, <2>1
  <2>3. u[n] = x
    BY <1>1, <2>1
  <2> HIDE DEF x
  <2>4. /\ v \in Seq(Names) /\ Len(v) = n /\ v[n] = x
        /\ \A i \in 1..Len(folder) : v[i] = folder[i]
    BY <1>1, <2>1 DEF x
  <2> HIDE DEF u, v
  <2>5. SubSeq(u, 1, n) = v
    <3> DEFINE c == SubSeq(u, 1, n)
    <3>1. n \in Nat /\ n <= Len(u) /\ Len(u) \in Nat
      BY <1>1, <2>1, <2>2
    <3>2. \A i \in 1..n : i \in 1..Len(u) /\ (i \in 1..Len(folder) \/ i = n)
      BY <1>1, <3>1
    <3> HIDE DEF n
    <3>3. c \in Seq(Names) /\ Len(c) = n /\ \A i \in 1..n : c[i] = u[i]
      BY <2>2, <3>1, <3>2
    <3> HIDE DEF c
    <3>4. \A i \in 1..n : c[i] = v[i]
      BY <2>2, <2>3, <2>4, <3>2, <3>3
    <3>5. c = v
      BY <2>4, <3>3, <3>4
    <3> QED BY <3>5 DEF c
  <2>6. Len(u) = n <=> Len(r) = 1
    <3> DEFINE l == Len(folder)
               m == Len(r)
    <3>1. l \in Nat /\ m \in Nat /\ Len(u) = l + m /\ n = l + 1
      BY <1>1, <2>1, <2>2
    <3> HIDE DEF l, m, n
    <3>2. Len(u) = n <=> m = 1
      BY <3>1
    <3> QED BY <3>2 DEF m
  <2>7. Len(r) = 1 => r = <<Head(r)>>
    BY <2>1
  <2> QED BY <2>5, <2>6, <2>7 DEF u, v, x
<1> HIDE DEF below, n
<1>7. files = {p \in below : Len(p) = n}
  BY DEF n
<1>8. folders = {SubSeq(p, 1, n) : p \in below \ files}
  BY DEF n
<1> HIDE DEF files, folders
<1>9. ASSUME NEW p \in files PROVE \E b \in B : p = folder \o <<b>>
  <2>1. PICK r \in R : p = folder \o r
    BY <1>4, <1>7
  <2>2. Len(r) = 1 /\ r = <<Head(r)>> /\ Head(r) \in Names
    BY <1>2, <1>6, <1>7, <2>1
  <2>3. w \o <<Head(r)>> \in ToSet(ks)
    BY <2>2
  <2>4. Head(r) \in B
    BY <2>2, <2>3 DEF FileNamesIn
  <2> QED BY <2>1, <2>2, <2>4
<1>10. ASSUME NEW b \in B PROVE folder \o <<b>> \in files
  <2>1. b \in Names /\ w \o <<b>> \in ToSet(ks)
    BY DEF FileNamesIn
  <2>2. <<b>> \in Paths /\ Len(<<b>>) = 1
    BY <2>1 DEF Paths
  <2>3. folder \o <<b>> \in below
    BY <1>5, <2>1, <2>2
  <2> QED BY <1>6, <1>7, <2>2, <2>3
<1>11. ASSUME NEW q \in folders PROVE \E a \in A : q = folder \o <<a>>
  <2>1. PICK p \in below \ files : q = SubSeq(p, 1, n)
    BY <1>8
  <2>2. PICK r \in R : p = folder \o r
    BY <1>4, <2>1
  <2>3. r \in Paths /\ w \o r \in ToSet(ks) /\ Len(r) > 1 /\ Head(r) \in Names
    <3>1. r \in Paths /\ w \o r \in ToSet(ks)
      BY <2>2
    <3>2. Len(p) # n
      BY <1>7, <2>1
    <3>3. Len(r) # 1
      BY <1>6, <2>2, <3>1, <3>2
    <3>4. Len(r) \in Nat /\ Len(r) >= 1 /\ Head(r) \in Names
      BY <1>2, <3>1
    <3> DEFINE m == Len(r)
    <3>5. m > 1
      <4>1. m \in Nat /\ m >= 1 /\ m # 1
        BY <3>3, <3>4
      <4> HIDE DEF m
      <4> QED BY <4>1
    <3> QED BY <3>1, <3>4, <3>5
  <2>4. Head(r) \in A
    BY <2>3 DEF FolderNamesIn
  <2> QED BY <1>6, <2>1, <2>2, <2>3, <2>4
<1>12. ASSUME NEW a \in A PROVE folder \o <<a>> \in folders
  <2>1. PICK r \in Paths : Len(r) > 1 /\ Head(r) = a /\ w \o r \in ToSet(ks)
    BY DEF FolderNamesIn
  <2>2. folder \o r \in below \ files
    <3>1. r \in R /\ Len(r) # 1
      <4>1. Len(r) \in Nat
        BY <1>2
      <4> DEFINE m == Len(r)
      <4>2. m # 1
        <5>1. m \in Nat /\ m > 1
          BY <2>1, <4>1
        <5> HIDE DEF m
        <5> QED BY <5>1
      <4>3. r \in R
        BY <2>1
      <4> QED BY <4>2, <4>3
    <3>2. folder \o r \in below
      BY <1>5, <3>1
    <3>3. Len(folder \o r) # n
      BY <1>6, <2>1, <3>1
    <3> QED BY <1>7, <3>2, <3>3
  <2>3. SubSeq(folder \o r, 1, n) = folder \o <<a>>
    BY <1>6, <2>1
  <2> QED BY <1>8, <2>2, <2>3
<1>13. files = { PathOf(w, b) : b \in B } /\ folders = { PathOf(w, a) : a \in A }
  <2> HIDE DEF A, B
  <2>1. files = { PathOf(w, b) : b \in B }
    BY <1>3, <1>9, <1>10
  <2>2. folders = { PathOf(w, a) : a \in A }
    BY <1>3, <1>11, <1>12
  <2> QED BY <2>1, <2>2
<1> QED BY <1>13 DEF files, folders, below, folder

\* The page of a folder, for every set of files: every dataset and every folder
\* in it, and nothing twice.
LEMMA PageIs ==
  ASSUME NEW line \in CommandLines, NEW ks \in Seq(Paths), NoDoubles(ks),
         ToSet(ks) = Keys(DataOf(line)), NEW tail \in Paths
  PROVE  LET links == PageLinks(ks, tail)
             w == WithoutSlash(tail)
         IN  /\ links \in Seq(Paths)
             /\ IsFolder(ks, tail) =>
                  /\ ToSet(links) =
                       { <<Empty>>, Append(DataPath, Empty) }
                       \cup { PathOf(w, a) : a \in FolderNamesIn(w, ToSet(ks)) }
                       \cup UNION { ToSet(DatasetLinks(PathOf(w, b))) :
                                       b \in FileNamesIn(w, ToSet(ks)) }
                  /\ Cardinality(ToSet(links)) = Len(links)
<1> DEFINE w == WithoutSlash(tail)
           gs == Folders(ks, tail)
           fs == Files(ks, tail)
           links == LinksOf(w, gs, fs)
<1>1. w \in Seq(Names)
  BY FolderOf
<1>2. \A k \in ToSet(ks) : ToSet(k) \subseteq Listed
  BY NamesAssumption DEF Listed
<1>3. /\ fs \in Seq(Names) /\ NoDoubles(fs) /\ ToSet(fs) = FileNamesIn(w, ToSet(ks))
      /\ gs \in Seq(Names) /\ NoDoubles(gs) /\ ToSet(gs) = FolderNamesIn(w, ToSet(ks))
  BY <1>2, ListingIs
<1>4. PageLinks(ks, tail) = links
  BY DEF PageLinks, FolderLinks, LinksOf
<1> HIDE DEF w, gs, fs
<1>5. /\ links \in Seq(Paths)
      /\ ToSet(links) = { <<Empty>>, Append(DataPath, Empty) }
                        \cup { PathOf(w, a) : a \in ToSet(gs) }
                        \cup UNION { ToSet(DatasetLinks(PathOf(w, b))) : b \in ToSet(fs) }
  BY <1>1, <1>3, LinksAre
<1>6. ASSUME IsFolder(ks, tail) PROVE NoDoubles(links)
  <2>1. /\ Empty \notin ToSet(gs) /\ Empty \notin ToSet(fs)
        /\ \A a \in ToSet(gs), b \in ToSet(fs) :
              a # b /\ \A s \in UrlSuffixes : a # Append(b, s)
        /\ \A b, c \in ToSet(fs) : \A s \in UrlSuffixes : b # Append(c, s)
    BY <1>3, <1>6, NamesApart DEF w
  <2> QED BY <1>1, <1>3, <2>1, LinksAre
<1> HIDE DEF links
<1>7. ASSUME IsFolder(ks, tail) PROVE Cardinality(ToSet(links)) = Len(links)
  BY <1>5, <1>6, <1>7, Counted
<1> QED BY <1>3, <1>4, <1>5, <1>7 DEF w

-----------------------------------------------------------------------------
(* The answers.                                                             *)

Asking(r) == r.path \in Paths /\ r.query \in Queries

\* What the visitor will still ask is a list of requests.
TodoInv ==
  /\ todo \in Seq(ToSet(todo))
  /\ \A r \in ToSet(todo) : Asking(r)
  /\ request # None => Asking(request)

\* What a request for the i-th dataset must be answered with.
Proper(r, a) ==
  \A i \in DOMAIN keys :
    LET path == DataPath \o keys[i]
    IN  /\ r.path = path /\ keys[i] # <<Empty>> =>
              a.by = "raw" /\ a.key = keys[i] /\ a.status = RawStatus(keys[i])
        /\ r.path = WithSuffix(path, "das") =>
              a.by = "das" /\ a.key = keys[i] /\ a.status = 200
        /\ r.path = WithSuffix(path, "dds") =>
              /\ a.by = "dds" /\ a.key = keys[i]
              /\ a.status = IF r.query = "misfit" THEN 400 ELSE 200
        /\ r.path = WithSuffix(path, "dods") =>
              IF r.query = "misfit" THEN a.status = 500
              ELSE a.by = "dods" /\ a.key = keys[i] /\ a.status = 200

\* A page has the links of the folder that was asked for.
Listing(r, a) ==
  a.by = "folder" /\ a.status = 200 =>
    /\ r.path \in Paths /\ IsFolder(keys, TailOf(r.path))
    /\ a.links = PageLinks(keys, TailOf(r.path))

\* A request that is on its way has not passed the filter that answers it: the
\* last four are das, dds, dods and raw.  Only a constraint that does not fit
\* leads past dods, and its rejection prevails.
OnItsWay(a) ==
  \A i \in DOMAIN keys :
    LET path == DataPath \o keys[i]
    IN  /\ request.path = WithSuffix(path, "das") => a <= Len(Routes) - 3
        /\ request.path = WithSuffix(path, "dds") => a <= Len(Routes) - 2
        /\ request.path = WithSuffix(path, "dods") =>
              a <= Len(Routes) - 1 \/ (request.query = "misfit" /\ worst = 500)

SiteInv ==
  /\ TypeOK
  /\ keys \in Seq(Paths) /\ NoDoubles(keys)
  /\ TodoInv
  /\ request # None => OnItsWay(at)
  /\ \A r \in DOMAIN answers : Proper(r, answers[r]) /\ Listing(r, answers[r])

LEMMA RoutesAre ==
  /\ DOMAIN Routes = 1..Len(Routes) /\ Len(Routes) \in {5, 7}
  /\ \A j \in 1..Len(Routes) :
        /\ Routes[j] = "das" <=> j = Len(Routes) - 3
        /\ Routes[j] = "dds" <=> j = Len(Routes) - 2
        /\ Routes[j] = "dods" <=> j = Len(Routes) - 1
        /\ Routes[j] = "raw" <=> j = Len(Routes)
<1>1. CASE catalog
  <2> DEFINE r == <<"index_json", "index", "folder">> \o <<"das", "dds", "dods", "raw">>
  <2>1. Routes = r
    BY <1>1 DEF Routes
  <2>2. Len(r) = 7 /\ DOMAIN r = 1..7
    OBVIOUS
  <2>3. r[1] = "index_json" /\ r[2] = "index" /\ r[3] = "folder"
    OBVIOUS
  <2>4. r[4] = "das" /\ r[5] = "dds" /\ r[6] = "dods" /\ r[7] = "raw"
    OBVIOUS
  <2> HIDE DEF r
  <2> QED BY <2>1, <2>2, <2>3, <2>4
<1>2. CASE ~catalog
  <2> DEFINE r == <<"dataset_list">> \o <<"das", "dds", "dods", "raw">>
  <2>1. Routes = r
    BY <1>2 DEF Routes
  <2>2. Len(r) = 5 /\ DOMAIN r = 1..5
    OBVIOUS
  <2>3. r[1] = "dataset_list"
    OBVIOUS
  <2>4. r[2] = "das" /\ r[3] = "dds" /\ r[4] = "dods" /\ r[5] = "raw"
    OBVIOUS
  <2> HIDE DEF r
  <2> QED BY <2>1, <2>2, <2>3, <2>4
<1> QED BY <1>1, <1>2

\* No filter but its own answers a URL of a dataset.
Clear ==
  /\ UnderData /\ ~AtEnd /\ request.path # <<Empty>>
  /\ ~Panics(keys, TailPath) /\ ~IsFolder(keys, TailPath)

LEMMA AskedForTheFile ==
  ASSUME SiteInv, NEW i \in DOMAIN keys, keys[i] # <<Empty>>,
         request.path = DataPath \o keys[i]
  PROVE  /\ Clear /\ TailPath = keys[i] /\ Found(TailPath)
         /\ \A s \in UrlSuffixes : ~EndsWith(s)
<1> DEFINE k == keys[i]
<1>1. /\ args \in CommandLines /\ keys \in Seq(Paths) /\ k \in Paths
      /\ ToSet(keys) = Keys(DataOf(args)) /\ k \in Keys(DataOf(args))
  BY DEF SiteInv, TypeOK, ToSet
<1>2. Supported(Last(k)) /\ \A other \in Keys(DataOf(args)) : ~IsStrictPrefix(k, other)
  BY <1>1, KeysAreNames
<1>3. Last(k) \in Names
  BY <1>1 DEF Last, Paths
<1>4. TailPath = k /\ request.path[1] = DataPath[1] /\ request.path # <<Empty>>
  BY <1>1, TailsOfRequests DEF TailPath
<1>5. Last(k) # Empty /\ \A s \in UrlSuffixes : Last(Last(k)) # s
  BY <1>2, <1>3, NamesOfDatasets
<1>6. \A j \in DOMAIN keys : ~IsStrictPrefix(k, keys[j])
  BY <1>1, <1>2 DEF ToSet
<1>7. ~Panics(keys, k) /\ ~IsFolder(keys, k)
  BY <1>1, <1>5, <1>6, NoPage
<1>8. k \in ToSet(keys)
  BY DEF ToSet
<1> QED BY <1>4, <1>5, <1>7, <1>8 DEF Clear, UnderData, AtEnd, Found, EndsWith

LEMMA AskedWithSuffix ==
  ASSUME SiteInv, NEW i \in DOMAIN keys, NEW s \in UrlSuffixes,
         request.path = WithSuffix(DataPath \o keys[i], s)
  PROVE  /\ Clear /\ EndsWith(s) /\ WithoutSuffix = keys[i] /\ Found(WithoutSuffix)
         /\ ~Found(TailPath)
         /\ \A t \in UrlSuffixes : t # s => ~EndsWith(t)
<1> DEFINE k == keys[i]
           tail == WithSuffix(k, s)
<1>1. /\ args \in CommandLines /\ keys \in Seq(Paths) /\ k \in Paths
      /\ ToSet(keys) = Keys(DataOf(args)) /\ k \in Keys(DataOf(args))
  BY DEF SiteInv, TypeOK, ToSet
<1>2. /\ tail \in Paths /\ Last(tail) # Empty /\ ~Supported(Last(tail))
      /\ Len(Last(tail)) > 1 /\ Last(Last(tail)) = s
      /\ Append(Front(tail), Front(Last(tail))) = k
      /\ WithSuffix(DataPath \o k, s) = DataPath \o tail
  BY <1>1, SuffixedNames
<1> HIDE DEF tail
<1>3. TailPath = tail /\ request.path[1] = DataPath[1] /\ request.path # <<Empty>>
  <2>1. request.path = DataPath \o tail
    BY <1>2
  <2>2. /\ (DataPath \o tail)[1] = DataPath[1] /\ TailOf(DataPath \o tail) = tail
        /\ DataPath \o tail # <<Empty>>
    BY <1>2, TailsOfRequests
  <2> QED BY <2>1, <2>2 DEF TailPath
<1>4. tail # <<Empty>>
  <2>1. Last(<<Empty>>) = Empty
    BY DEF Last
  <2> QED BY <1>2, <2>1
<1>5. tail \notin ToSet(keys)
  BY <1>1, <1>2, <1>4, KeysAreNames
<1>6. \A j \in DOMAIN keys : ~IsStrictPrefix(tail, keys[j])
  BY <1>1, UrlsAssumption DEF ToSet, tail
<1>7. ~Panics(keys, tail) /\ ~IsFolder(keys, tail)
  BY <1>1, <1>2, <1>6, NoPage
<1>8. k \in ToSet(keys)
  BY DEF ToSet
<1> QED BY <1>2, <1>3, <1>4, <1>5, <1>7, <1>8
        DEF Clear, UnderData, AtEnd, Found, EndsWith, WithoutSuffix

-----------------------------------------------------------------------------
(* The steps.                                                               *)

LEMMA InitSite == Init => SiteInv
<1> SUFFICES ASSUME Init PROVE SiteInv
  OBVIOUS
<1>1. args \in CommandLines /\ keys \in SetToSeqs(Keys(DataOf(args)))
  BY DEF Init
<1>2. keys \in Seq(Paths) /\ ToSet(keys) = Keys(DataOf(args)) /\ NoDoubles(keys)
  BY <1>1, KeysAreListed
<1>3. DOMAIN answers = {}
  BY DEF Init
<1>4. TypeOK
  BY <1>2, <1>3 DEF Init, TypeOK
<1>5. TodoInv
  <2> DEFINE b == Browse(<<Empty>>)
             T == ToSet(Typed) \cup {b}
  <2>1. Typed \in Seq(ToSet(Typed)) /\ \A r \in ToSet(Typed) : Asking(r)
    <3>1. Typed \in Seq([path : Paths, json : BOOLEAN, query : Queries])
      BY RequestsAssumption
    <3>2. ASSUME NEW S, NEW s \in Seq(S)
          PROVE  s \in Seq(ToSet(s)) /\ ToSet(s) \subseteq S
      BY DEF ToSet
    <3>3. /\ Typed \in Seq(ToSet(Typed))
          /\ ToSet(Typed) \subseteq [path : Paths, json : BOOLEAN, query : Queries]
      BY <3>1, <3>2
    <3> QED BY <3>3 DEF Asking
  <2>2. Asking(b)
    <3>1. b.query = "none" /\ b.path = <<Empty>>
      BY DEF Browse
    <3> QED BY <3>1, NamesOfDatasets DEF Asking, Queries
  <2>3. todo = <<b>> \o Typed /\ request = None
    BY DEF Init
  <2> HIDE DEF b
  <2>4. <<b>> \o Typed \in Seq(T)
    BY <2>1
  <2>5. \A r \in T : Asking(r)
    BY <2>1, <2>2
  <2> HIDE DEF T
  <2>6. todo \in Seq(T)
    BY <2>3, <2>4
  <2>7. todo \in Seq(ToSet(todo)) /\ ToSet(todo) \subseteq T
    BY <2>6 DEF ToSet
  <2> QED BY <2>3, <2>5, <2>7 DEF TodoInv
<1> QED BY <1>2, <1>3, <1>4, <1>5 DEF SiteInv, Init

LEMMA VisitKeeps ==
  ASSUME SiteInv, Visit
  PROVE  SiteInv'
<1>1. /\ todo \in Seq(ToSet(todo)) /\ todo # <<>>
      /\ request' = Head(todo) /\ todo' = Tail(todo) /\ at' = 1 /\ worst' = 404
      /\ UNCHANGED <<catalog, args, keys, answers>>
  BY DEF SiteInv, TodoInv, Visit, serverVars
<1>2. Head(todo) \in ToSet(todo) /\ todo' \in Seq(ToSet(todo))
  BY <1>1
<1>3. todo' \in Seq(ToSet(todo')) /\ ToSet(todo') \subseteq ToSet(todo)
  BY <1>2 DEF ToSet
<1>4. TodoInv'
  BY <1>1, <1>2, <1>3 DEF SiteInv, TodoInv
<1>5. Routes' = Routes /\ DOMAIN Routes = 1..Len(Routes) /\ Len(Routes) \in {5, 7}
  BY <1>1, RoutesAre DEF Routes
<1>6. TypeOK'
  <2>1. at' \in DOMAIN Routes'
    BY <1>1, <1>5
  <2> QED BY <1>1, <1>5, <2>1 DEF SiteInv, TypeOK
<1>7. OnItsWay(at)'
  <2>1. /\ at' <= Len(Routes)' - 3 /\ at' <= Len(Routes)' - 2 /\ at' <= Len(Routes)' - 1
    BY <1>1, <1>5
  <2> QED BY <2>1 DEF OnItsWay
<1>8. \A r \in DOMAIN answers' : Proper(r, answers[r])'
  BY <1>1, SMTT(40) DEF SiteInv, Proper, RawStatus
<1>9. \A r \in DOMAIN answers' : Listing(r, answers[r])'
  BY <1>1 DEF SiteInv, Listing
<1>10. keys' \in Seq(Paths) /\ NoDoubles(keys)'
  BY <1>1 DEF SiteInv, NoDoubles
<1> QED BY <1>4, <1>6, <1>7, <1>8, <1>9, <1>10 DEF SiteInv

LEMMA WrittenIsPath ==
  ASSUME NEW p \in Paths
  PROVE  Written(p) \in Paths
<1>1. p \in Seq(Names) /\ Len(p) \in Nat /\ Len(p) >= 1 /\ DOMAIN p = 1..Len(p)
  BY DEF Paths
<1>2. Written(p) \in [1..Len(p) -> Names]
  BY <1>1, RequestsAssumption DEF Written
<1>3. Written(p) \in Seq(Names) /\ Len(Written(p)) = Len(p)
  BY <1>1, <1>2
<1> QED BY <1>1, <1>3 DEF Paths

LEMMA TailIsPath ==
  ASSUME NEW p \in Paths
  PROVE  TailOf(p) \in Paths
<1>1. p \in Seq(Names) /\ Len(p) \in Nat /\ Len(p) >= 1
  BY DEF Paths
<1>2. CASE Len(p) = 1
  BY <1>2, NamesOfDatasets DEF TailOf
<1>3. CASE Len(p) # 1
  <2>1. Tail(p) \in Seq(Names) /\ Len(Tail(p)) = Len(p) - 1
    BY <1>1
  <2>2. Tail(p) # <<>>
    BY <1>1, <1>3, <2>1
  <2> QED BY <1>3, <2>1, <2>2 DEF TailOf, Paths
<1> QED BY <1>2, <1>3

\* An answer that is proper keeps all in order.
LEMMA RecordKeeps ==
  ASSUME SiteInv, request # None, NEW by, NEW key, NEW status, NEW links,
         by \in ToSet(Routes) \cup {"none"}, status \in {0, 200, 400, 404, 500},
         answers' = Recorded(by, key, status, links),
         UNCHANGED <<catalog, args, keys>>, request' = None,
         worst' \in {400, 404, 500}, TodoInv',
         Proper(request, [by |-> by, key |-> key, status |-> status, links |-> links]),
         Listing(request, [by |-> by, key |-> key, status |-> status, links |-> links])
  PROVE  SiteInv'
<1> DEFINE a == [by |-> by, key |-> key, status |-> status, links |-> links]
<1>1. /\ DOMAIN answers' = DOMAIN answers \cup {request}
      /\ \A r \in DOMAIN answers : answers'[r] = answers[r]
      /\ request \notin DOMAIN answers => answers'[request] = a
  BY DEF Recorded
<1>2. a.by = by /\ a.status = status
  OBVIOUS
<1>3. request.query \in Queries
  BY DEF SiteInv, TodoInv, Asking
<1> HIDE DEF a
<1>4. Routes' = Routes
  BY DEF Routes
<1>5. TypeOK'
  <2>1. ASSUME NEW r \in DOMAIN answers'
        PROVE  /\ r.query \in Queries /\ answers'[r].status \in {0, 200, 400, 404, 500}
               /\ answers'[r].by \in ToSet(Routes) \cup {"none"}
    <3>1. CASE r \in DOMAIN answers
      BY <1>1, <3>1 DEF SiteInv, TypeOK
    <3>2. CASE r \notin DOMAIN answers
      BY <1>1, <1>2, <1>3, <3>2
    <3> QED BY <3>1, <3>2
  <2> QED BY <1>4, <2>1 DEF SiteInv, TypeOK
<1>6. ASSUME NEW r \in DOMAIN answers' PROVE Proper(r, answers[r])'
  <2>1. Proper(r, answers'[r])
    <3>1. CASE r \in DOMAIN answers
      BY <1>1, <3>1 DEF SiteInv
    <3>2. CASE r \notin DOMAIN answers
      BY <1>1, <3>2 DEF a
    <3> QED BY <3>1, <3>2
  <2> QED BY <2>1 DEF Proper, RawStatus
<1>7. ASSUME NEW r \in DOMAIN answers' PROVE Listing(r, answers[r])'
  <2>1. Listing(r, answers'[r])
    <3>1. CASE r \in DOMAIN answers
      BY <1>1, <3>1 DEF SiteInv
    <3>2. CASE r \notin DOMAIN answers
      BY <1>1, <3>2 DEF a
    <3> QED BY <3>1, <3>2
  <2> QED BY <2>1 DEF Listing
<1>8. keys' \in Seq(Paths) /\ NoDoubles(keys)'
  BY DEF SiteInv, NoDoubles
<1> QED BY <1>5, <1>6, <1>7, <1>8 DEF SiteInv

LEMMA AnswerKeeps ==
  ASSUME SiteInv, request # None, NEW by, NEW key, NEW status, NEW links \in Seq(Paths),
         by = "folder" /\ status = 200 =>
            IsFolder(keys, TailPath) /\ links = PageLinks(keys, TailPath),
         by \in ToSet(Routes), status \in {0, 200, 400, 404, 500},
         Answer(by, key, status, links),
         Proper(request, [by |-> by, key |-> key, status |-> status, links |-> links])
  PROVE  SiteInv'
<1> DEFINE e == [i \in 1..Len(links) |-> Browse(Written(links[i]))]
           ss == [i \in 1..Len(links) |->
                    LET r == Browse(Written(links[i]))
                    IN  IF r \in DOMAIN answers \cup ToSet(todo) \cup {request}
                        THEN <<>> ELSE <<r>>]
           New == {e[i] : i \in 1..Len(links)}
           T == ToSet(todo) \cup New
<1>1. NewLinks(links) \in Seq(New)
  <2>1. NewLinks(links) = FlattenSeq(ss)
    BY DEF NewLinks
  <2>2. ss = [i \in 1..Len(links) |-> ss[i]] /\ \A i \in 1..Len(links) : ss[i] \in {<<>>, <<e[i]>>}
    OBVIOUS
  <2>3. Len(links) \in Nat
    OBVIOUS
  <2> HIDE DEF ss, e
  <2>4. FlattenSeq(ss) \in Seq({e[i] : i \in 1..Len(links)})
    <3> DEFINE n == Len(links)
    <3>1. n \in Nat /\ ss = [i \in 1..n |-> ss[i]] /\ \A i \in 1..n : ss[i] \in {<<>>, <<e[i]>>}
      BY <2>2, <2>3
    <3> HIDE DEF n
    <3>2. FlattenSeq(ss) \in Seq({e[i] : i \in 1..n})
      BY ONLY <3>1, Picked, Zenon
    <3> QED BY <3>2 DEF n
  <2> QED BY <2>1, <2>4
<1>2. ASSUME NEW r \in New PROVE Asking(r)
  <2>1. PICK i \in 1..Len(links) : r = Browse(Written(links[i]))
    OBVIOUS
  <2>2. Written(links[i]) \in Paths
    <3>1. links[i] \in Paths
      BY <2>1
    <3> QED BY <3>1, WrittenIsPath
  <2>3. r.path = Written(links[i]) /\ r.query = "none"
    BY <2>1 DEF Browse
  <2> QED BY <2>2, <2>3 DEF Asking, Queries
<1> HIDE DEF New
<1>3. /\ todo' = todo \o NewLinks(links) /\ request' = None
      /\ answers' = Recorded(by, key, status, links)
      /\ UNCHANGED <<catalog, args, keys, at, worst>>
  BY DEF Answer, serverVars
<1>4. TodoInv'
  <2>1. todo \in Seq(ToSet(todo))
    BY DEF SiteInv, TodoInv
  <2>2. todo \o NewLinks(links) \in Seq(T)
    BY <1>1, <2>1
  <2> HIDE DEF T
  <2>3. todo' \in Seq(T)
    BY <1>3, <2>2
  <2>4. todo' \in Seq(ToSet(todo')) /\ ToSet(todo') \subseteq T
    BY <2>3 DEF ToSet
  <2>5. \A r \in T : Asking(r)
    BY <1>2 DEF SiteInv, TodoInv, T
  <2> QED BY <1>3, <2>4, <2>5 DEF TodoInv
<1>5. worst' \in {400, 404, 500}
  BY <1>3 DEF SiteInv, TypeOK
<1> DEFINE a == [by |-> by, key |-> key, status |-> status, links |-> links]
<1>6. Listing(request, a)
  <2>1. a.by = by /\ a.status = status /\ a.links = links
    OBVIOUS
  <2>2. request.path \in Paths
    BY DEF SiteInv, TodoInv, Asking
  <2> HIDE DEF a
  <2> QED BY <2>1, <2>2 DEF Listing, TailPath
<1> QED BY <1>3, <1>4, <1>5, <1>6, RecordKeeps

LEMMA ShortAnswerKeeps ==
  ASSUME SiteInv, request # None, NEW by, NEW key, NEW status, by # "folder" \/ status # 200,
         by \in ToSet(Routes), status \in {0, 200, 400, 404, 500},
         Answer(by, key, status, <<>>),
         Proper(request, [by |-> by, key |-> key, status |-> status, links |-> <<>>])
  PROVE  SiteInv'
<1> DEFINE links == <<>>
<1>1. links \in Seq(Paths)
  OBVIOUS
<1>2. /\ Answer(by, key, status, links)
      /\ Proper(request, [by |-> by, key |-> key, status |-> status, links |-> links])
  OBVIOUS
<1> HIDE DEF links
<1> QED BY <1>1, <1>2, AnswerKeeps

\* A filter may only reject what a later one answers.
LEMMA FallKeeps ==
  ASSUME SiteInv, request # None, NEW status \in {400, 404, 500}, Fall(status),
         \A i \in DOMAIN keys :
            LET path == DataPath \o keys[i]
            IN  /\ request.path = path /\ keys[i] # <<Empty>> => at # Len(Routes)
                /\ request.path = WithSuffix(path, "das") => at # Len(Routes) - 3
                /\ request.path = WithSuffix(path, "dds") => at # Len(Routes) - 2
                /\ request.path = WithSuffix(path, "dods") =>
                      at # Len(Routes) - 1 \/ (request.query = "misfit" /\ status = 500)
  PROVE  SiteInv'
<1>0. DOMAIN Routes = 1..Len(Routes) /\ Len(Routes) \in {5, 7}
  BY RoutesAre
<1>1. /\ worst' = Preferred(worst, status)
      /\ UNCHANGED <<catalog, args, keys, todo>>
      /\ worst \in {400, 404, 500}
      /\ at \in 1..Len(Routes) /\ Len(Routes) \in {5, 7}
  BY <1>0 DEF Fall, serverVars, SiteInv, TypeOK
<1>2. worst' \in {400, 404, 500} /\ (worst = 500 \/ status = 500 => worst' = 500)
  BY <1>1 DEF Preferred
<1>3. Routes' = Routes
  BY <1>1 DEF Routes
<1>4. CASE at = Len(Routes)
  <2>1. request' = None /\ answers' = Recorded("none", <<>>, worst', <<>>)
    BY <1>4 DEF Fall
  <2>2. TodoInv'
    BY <1>1, <2>1 DEF SiteInv, TodoInv
  <2> DEFINE a == [by |-> "none", key |-> <<>>, status |-> worst', links |-> <<>>]
  <2>3. Proper(request, a)
    <3>1. a.status = worst'
      OBVIOUS
    <3> HIDE DEF a
    <3> SUFFICES ASSUME NEW i \in DOMAIN keys
                 PROVE  LET path == DataPath \o keys[i]
                        IN  /\ ~(request.path = path /\ keys[i] # <<Empty>>)
                            /\ request.path # WithSuffix(path, "das")
                            /\ request.path # WithSuffix(path, "dds")
                            /\ request.path = WithSuffix(path, "dods") =>
                                  request.query = "misfit" /\ a.status = 500
      BY DEF Proper
    <3>2. OnItsWay(at)
      BY DEF SiteInv
    <3> DEFINE path == DataPath \o keys[i]
               n == Len(Routes)
    <3>3. n \in Nat /\ ~(n <= n - 3) /\ ~(n <= n - 2) /\ ~(n <= n - 1)
      <4>1. n \in {5, 7}
        BY <1>0
      <4> HIDE DEF n
      <4> QED BY <4>1
    <3>4. /\ request.path = WithSuffix(path, "das") => n <= n - 3
          /\ request.path = WithSuffix(path, "dds") => n <= n - 2
          /\ request.path = WithSuffix(path, "dods") =>
                n <= n - 1 \/ (request.query = "misfit" /\ worst = 500)
      BY <1>4, <3>2 DEF OnItsWay
    <3>5. ~(request.path = path /\ keys[i] # <<Empty>>)
      BY <1>4
    <3> QED BY <1>2, <3>1, <3>3, <3>4, <3>5
  <2>4. worst' \in {0, 200, 400, 404, 500}
    BY <1>2
  <2>5. Listing(request, a)
    <3>1. a.by = "none"
      OBVIOUS
    <3> HIDE DEF a
    <3> QED BY <3>1 DEF Listing
  <2> QED BY <1>1, <1>2, <2>1, <2>2, <2>3, <2>4, <2>5, RecordKeeps
<1>5. CASE at # Len(Routes)
  <2>1. at' = at + 1 /\ UNCHANGED <<request, answers>>
    BY <1>5 DEF Fall
  <2>2. TypeOK'
    <3>1. at' \in DOMAIN Routes'
      <4> DEFINE n == Len(Routes)
      <4>1. n \in {5, 7} /\ at \in 1..n /\ at # n /\ DOMAIN Routes' = 1..n /\ at' = at + 1
        BY <1>0, <1>1, <1>3, <1>5, <2>1, ZenonT(40)
      <4> HIDE DEF n
      <4>2. at + 1 \in 1..n
        BY <4>1
      <4> QED BY <4>1, <4>2
    <3> QED BY <1>1, <1>2, <1>3, <2>1, <3>1 DEF SiteInv, TypeOK
  <2>3. TodoInv'
    BY <1>1, <2>1 DEF SiteInv, TodoInv
  <2>4. OnItsWay(at)'
    BY <1>1, <1>2, <1>3, <1>5, <2>1 DEF SiteInv, OnItsWay
  <2>5. \A r \in DOMAIN answers' : Proper(r, answers[r])'
    BY <1>1, <2>1 DEF SiteInv, Proper, RawStatus
  <2>6. \A r \in DOMAIN answers' : Listing(r, answers[r])'
    BY <1>1, <2>1 DEF SiteInv, Listing
  <2>7. keys' \in Seq(Paths) /\ NoDoubles(keys)'
    BY <1>1 DEF SiteInv, NoDoubles
  <2> QED BY <2>2, <2>3, <2>4, <2>5, <2>6, <2>7 DEF SiteInv
<1> QED BY <1>4, <1>5

LEMMA NoUrl ==
  ASSUME SiteInv, NEW a, ~Clear
  PROVE  Proper(request, a)
<1>1. ASSUME NEW i \in DOMAIN keys
      PROVE  LET path == DataPath \o keys[i]
             IN  /\ ~(request.path = path /\ keys[i] # <<Empty>>)
                 /\ request.path # WithSuffix(path, "das")
                 /\ request.path # WithSuffix(path, "dds")
                 /\ request.path # WithSuffix(path, "dods")
  <2>1. "das" \in UrlSuffixes /\ "dds" \in UrlSuffixes /\ "dods" \in UrlSuffixes
    BY DEF UrlSuffixes
  <2> QED BY <2>1, AskedForTheFile, AskedWithSuffix, Zenon
<1> QED BY <1>1 DEF Proper

\* A filter before the last four may reject anything.
LEMMA FallEarly ==
  ASSUME SiteInv, request # None, NEW status \in {400, 404, 500}, Fall(status),
         Routes[at] \notin {"das", "dds", "dods", "raw"}
  PROVE  SiteInv'
<1>1. at \in 1..Len(Routes) /\ DOMAIN Routes = 1..Len(Routes)
  <2>1. DOMAIN Routes = 1..Len(Routes)
    BY RoutesAre
  <2> QED BY <2>1 DEF SiteInv, TypeOK
<1>2. /\ at # Len(Routes) - 3 /\ at # Len(Routes) - 2
      /\ at # Len(Routes) - 1 /\ at # Len(Routes)
  BY <1>1, RoutesAre, ZenonT(40)
<1> QED BY <1>2, FallKeeps

LEMMA ReachedRoute ==
  ASSUME SiteInv, NEW route, Reached(route)
  PROVE  /\ request # None /\ Routes[at] = route /\ route \in ToSet(Routes)
         /\ at \in 1..Len(Routes) /\ Len(Routes) \in {5, 7}
<1>1. request # None /\ Routes[at] = route /\ at \in DOMAIN Routes
  BY DEF Reached, SiteInv, TypeOK
<1>2. DOMAIN Routes = 1..Len(Routes) /\ Len(Routes) \in {5, 7}
  BY RoutesAre, Zenon
<1>3. route \in ToSet(Routes)
  BY <1>1 DEF ToSet
<1> QED BY <1>1, <1>2, <1>3, Zenon

LEMMA ListKeeps ==
  ASSUME SiteInv, NEW route \in {"index_json", "dataset_list"}, ListDatasets(route)
  PROVE  SiteInv'
<1>1. request # None /\ Routes[at] = route /\ route \in ToSet(Routes)
  BY ReachedRoute DEF ListDatasets
<1>2. CASE ~(UnderData /\ AtEnd)
  BY <1>1, <1>2, FallEarly DEF ListDatasets
<1>3. CASE UnderData /\ AtEnd /\ ~request.json
  BY <1>1, <1>3, FallEarly DEF ListDatasets
<1>4. CASE UnderData /\ AtEnd /\ request.json
  <2>1. Answer(route, <<>>, 200, <<>>) /\ ~Clear
    BY <1>4 DEF ListDatasets, Clear
  <2>2. Proper(request, [by |-> route, key |-> <<>>, status |-> 200, links |-> <<>>])
    BY <2>1, NoUrl
  <2> QED BY <1>1, <2>1, <2>2, ShortAnswerKeeps
<1> QED BY <1>2, <1>3, <1>4

LEMMA IndexKeeps ==
  ASSUME SiteInv, Index
  PROVE  SiteInv'
<1>1. request # None /\ Routes[at] = "index" /\ "index" \in ToSet(Routes)
  BY ReachedRoute DEF Index
<1>2. CASE request.path = <<Empty>>
  <2>1. Answer("index", <<>>, 200, IndexLinks) /\ ~Clear
    BY <1>2 DEF Index, Clear
  <2>3. IndexLinks \in Seq(Paths)
    <3>1. DataPath \in Paths
      BY DataPathIs DEF DataPath, Paths
    <3> QED BY <3>1, Singletons, Zenon DEF IndexLinks
  <2>2. Proper(request, [by |-> "index", key |-> <<>>, status |-> 200, links |-> IndexLinks])
    BY <2>1, NoUrl
  <2> QED BY <1>1, <2>1, <2>2, <2>3, AnswerKeeps
<1>3. CASE request.path # <<Empty>>
  BY <1>1, <1>3, FallEarly DEF Index
<1> QED BY <1>2, <1>3

LEMMA FolderKeeps ==
  ASSUME SiteInv, Folder
  PROVE  SiteInv'
<1>1. request # None /\ Routes[at] = "folder" /\ "folder" \in ToSet(Routes)
  BY ReachedRoute DEF Folder
<1>2. CASE ~UnderData \/ (UnderData /\ ~Panics(keys, TailPath) /\ ~IsFolder(keys, TailPath))
  BY <1>1, <1>2, FallEarly DEF Folder
<1>3. CASE UnderData /\ Panics(keys, TailPath)
  <2>1. Answer("folder", <<>>, 0, <<>>) /\ ~Clear
    BY <1>3 DEF Folder, Clear
  <2>2. Proper(request, [by |-> "folder", key |-> <<>>, status |-> 0, links |-> <<>>])
    BY <2>1, NoUrl
  <2> QED BY <1>1, <2>1, <2>2, ShortAnswerKeeps
<1>4. CASE UnderData /\ ~Panics(keys, TailPath) /\ IsFolder(keys, TailPath)
  <2> DEFINE links == PageLinks(keys, TailPath)
  <2>1. Answer("folder", <<>>, 200, links) /\ ~Clear
    BY <1>4 DEF Folder, Clear
  <2>2. links \in Seq(Paths)
    <3>1. request.path \in Paths
      BY <1>1 DEF SiteInv, TodoInv, Asking
    <3>2. TailPath \in Paths
      BY <3>1, TailIsPath DEF TailPath
    <3>3. /\ args \in CommandLines /\ keys \in Seq(Paths) /\ NoDoubles(keys)
          /\ ToSet(keys) = Keys(DataOf(args))
      BY DEF SiteInv, TypeOK
    <3> QED BY <3>2, <3>3, PageIs
  <2>3. IsFolder(keys, TailPath) /\ links = PageLinks(keys, TailPath)
    BY <1>4
  <2> HIDE DEF links
  <2>4. Proper(request, [by |-> "folder", key |-> <<>>, status |-> 200, links |-> links])
    BY <2>1, NoUrl
  <2> QED BY <1>1, <2>1, <2>2, <2>3, <2>4, AnswerKeeps
<1> QED BY <1>2, <1>3, <1>4

\* What is known of a request that asks for the i-th dataset.
LEMMA Asked ==
  ASSUME SiteInv, NEW i \in DOMAIN keys
  PROVE  LET path == DataPath \o keys[i]
         IN  /\ request.path = path /\ keys[i] # <<Empty>> =>
                   /\ UnderData /\ TailPath = keys[i] /\ Found(TailPath)
                   /\ ~EndsWith("das") /\ ~EndsWith("dds") /\ ~EndsWith("dods")
             /\ request.path = WithSuffix(path, "das") =>
                   /\ UnderData /\ WithoutSuffix = keys[i] /\ Found(WithoutSuffix)
                   /\ ~Found(TailPath)
                   /\ EndsWith("das") /\ ~EndsWith("dds") /\ ~EndsWith("dods")
             /\ request.path = WithSuffix(path, "dds") =>
                   /\ UnderData /\ WithoutSuffix = keys[i] /\ Found(WithoutSuffix)
                   /\ ~Found(TailPath)
                   /\ ~EndsWith("das") /\ EndsWith("dds") /\ ~EndsWith("dods")
             /\ request.path = WithSuffix(path, "dods") =>
                   /\ UnderData /\ WithoutSuffix = keys[i] /\ Found(WithoutSuffix)
                   /\ ~Found(TailPath)
                   /\ ~EndsWith("das") /\ ~EndsWith("dds") /\ EndsWith("dods")
<1> DEFINE path == DataPath \o keys[i]
<1>1. "das" \in UrlSuffixes /\ "dds" \in UrlSuffixes /\ "dods" \in UrlSuffixes
  BY DEF UrlSuffixes
<1>2. "das" # "dds" /\ "das" # "dods" /\ "dds" # "dods"
  OBVIOUS
<1>3. ASSUME request.path = path, keys[i] # <<Empty>>
      PROVE  /\ Clear /\ TailPath = keys[i] /\ Found(TailPath)
             /\ \A s \in UrlSuffixes : ~EndsWith(s)
  BY <1>3, AskedForTheFile, Zenon
<1>4. ASSUME NEW s \in UrlSuffixes, request.path = WithSuffix(path, s)
      PROVE  /\ Clear /\ EndsWith(s) /\ WithoutSuffix = keys[i] /\ Found(WithoutSuffix)
             /\ ~Found(TailPath)
             /\ \A t \in UrlSuffixes : t # s => ~EndsWith(t)
  BY <1>4, AskedWithSuffix, Zenon
<1>5. Clear => UnderData
  BY DEF Clear
<1> HIDE DEF path
<1>6. request.path = path /\ keys[i] # <<Empty>> =>
        /\ UnderData /\ TailPath = keys[i] /\ Found(TailPath)
        /\ ~EndsWith("das") /\ ~EndsWith("dds") /\ ~EndsWith("dods")
  BY <1>1, <1>3, <1>5, Zenon
<1>7. request.path = WithSuffix(path, "das") =>
        /\ UnderData /\ WithoutSuffix = keys[i] /\ Found(WithoutSuffix) /\ ~Found(TailPath)
        /\ EndsWith("das") /\ ~EndsWith("dds") /\ ~EndsWith("dods")
  BY <1>1, <1>2, <1>4, <1>5, Zenon
<1>8. request.path = WithSuffix(path, "dds") =>
        /\ UnderData /\ WithoutSuffix = keys[i] /\ Found(WithoutSuffix) /\ ~Found(TailPath)
        /\ ~EndsWith("das") /\ EndsWith("dds") /\ ~EndsWith("dods")
  BY <1>1, <1>2, <1>4, <1>5, Zenon
<1>9. request.path = WithSuffix(path, "dods") =>
        /\ UnderData /\ WithoutSuffix = keys[i] /\ Found(WithoutSuffix) /\ ~Found(TailPath)
        /\ ~EndsWith("das") /\ ~EndsWith("dds") /\ EndsWith("dods")
  BY <1>1, <1>2, <1>4, <1>5, Zenon
<1> QED BY <1>6, <1>7, <1>8, <1>9 DEF path

LEMMA DasKeeps ==
  ASSUME SiteInv, Das
  PROVE  SiteInv'
<1>1. /\ request # None /\ Routes[at] = "das" /\ "das" \in ToSet(Routes)
      /\ at \in 1..Len(Routes) /\ Len(Routes) \in {5, 7}
  BY ReachedRoute DEF Das
<1>2. at = Len(Routes) - 3
  BY <1>1, RoutesAre
<1>3. CASE UnderData /\ EndsWith("das") /\ Found(WithoutSuffix)
  <2> DEFINE key == WithoutSuffix
             a == [by |-> "das", key |-> key, status |-> 200, links |-> <<>>]
  <2>1. Answer("das", key, 200, <<>>)
    BY <1>3 DEF Das
  <2>2. Proper(request, a)
    <3>1. a.by = "das" /\ a.key = key /\ a.status = 200
      OBVIOUS
    <3> HIDE DEF a
    <3> QED BY <1>3, <3>1, Asked DEF Proper
  <2> QED BY <1>1, <2>1, <2>2, ShortAnswerKeeps
<1>4. CASE ~(UnderData /\ EndsWith("das") /\ Found(WithoutSuffix))
  <2>1. Fall(404)
    BY <1>4 DEF Das
  <2>2. ASSUME NEW i \in DOMAIN keys PROVE request.path # WithSuffix(DataPath \o keys[i], "das")
    BY <1>4, Asked
  <2>3. at # Len(Routes) /\ at # Len(Routes) - 2 /\ at # Len(Routes) - 1
    BY <1>1, <1>2
  <2> QED BY <1>1, <2>1, <2>2, <2>3, FallKeeps
<1> QED BY <1>3, <1>4

LEMMA DdsKeeps ==
  ASSUME SiteInv, DdsText
  PROVE  SiteInv'
<1>1. /\ request # None /\ Routes[at] = "dds" /\ "dds" \in ToSet(Routes)
      /\ at \in 1..Len(Routes) /\ Len(Routes) \in {5, 7}
  BY ReachedRoute DEF DdsText
<1>2. at = Len(Routes) - 2
  BY <1>1, RoutesAre
<1>3. CASE UnderData /\ EndsWith("dds") /\ Found(WithoutSuffix)
  <2> DEFINE key == WithoutSuffix
             status == IF Misfit THEN 400 ELSE 200
             a == [by |-> "dds", key |-> key, status |-> status, links |-> <<>>]
  <2>1. Answer("dds", key, status, <<>>) /\ status \in {200, 400}
    BY <1>3 DEF DdsText
  <2>2. Proper(request, a)
    <3>1. /\ a.by = "dds" /\ a.key = key
          /\ a.status = IF request.query = "misfit" THEN 400 ELSE 200
      BY DEF Misfit
    <3> HIDE DEF a
    <3> QED BY <1>3, <3>1, Asked DEF Proper
  <2> HIDE DEF status
  <2> QED BY <1>1, <2>1, <2>2, ShortAnswerKeeps
<1>4. CASE ~(UnderData /\ EndsWith("dds") /\ Found(WithoutSuffix))
  <2>1. Fall(404)
    BY <1>4 DEF DdsText
  <2>2. ASSUME NEW i \in DOMAIN keys PROVE request.path # WithSuffix(DataPath \o keys[i], "dds")
    BY <1>4, Asked
  <2>3. at # Len(Routes) /\ at # Len(Routes) - 3 /\ at # Len(Routes) - 1
    BY <1>1, <1>2
  <2> QED BY <1>1, <2>1, <2>2, <2>3, FallKeeps
<1> QED BY <1>3, <1>4

LEMMA DodsKeeps ==
  ASSUME SiteInv, DodsBody
  PROVE  SiteInv'
<1>1. /\ request # None /\ Routes[at] = "dods" /\ "dods" \in ToSet(Routes)
      /\ at \in 1..Len(Routes) /\ Len(Routes) \in {5, 7}
  BY ReachedRoute DEF DodsBody
<1>2. at = Len(Routes) - 1
  BY <1>1, RoutesAre
<1>3. at # Len(Routes) /\ at # Len(Routes) - 3 /\ at # Len(Routes) - 2
  BY <1>1, <1>2
<1>4. CASE UnderData /\ EndsWith("dods") /\ Found(WithoutSuffix) /\ ~Misfit
  <2> DEFINE key == WithoutSuffix
             a == [by |-> "dods", key |-> key, status |-> 200, links |-> <<>>]
  <2>1. Answer("dods", key, 200, <<>>)
    BY <1>4 DEF DodsBody
  <2>2. Proper(request, a)
    <3>1. a.by = "dods" /\ a.key = key /\ a.status = 200 /\ request.query # "misfit"
      BY <1>4 DEF Misfit
    <3> HIDE DEF a
    <3> QED BY <1>4, <3>1, Asked DEF Proper
  <2> QED BY <1>1, <2>1, <2>2, ShortAnswerKeeps
<1>5. CASE UnderData /\ EndsWith("dods") /\ Found(WithoutSuffix) /\ Misfit
  <2>1. Fall(500) /\ request.query = "misfit"
    BY <1>5 DEF DodsBody, Misfit
  <2> QED BY <1>1, <1>3, <2>1, FallKeeps
<1>6. CASE ~(UnderData /\ EndsWith("dods") /\ Found(WithoutSuffix))
  <2>1. Fall(404)
    BY <1>6 DEF DodsBody
  <2>2. ASSUME NEW i \in DOMAIN keys PROVE request.path # WithSuffix(DataPath \o keys[i], "dods")
    BY <1>6, Asked
  <2> QED BY <1>1, <1>3, <2>1, <2>2, FallKeeps
<1> QED BY <1>4, <1>5, <1>6

LEMMA RawKeeps ==
  ASSUME SiteInv, Raw
  PROVE  SiteInv'
<1>1. /\ request # None /\ Routes[at] = "raw" /\ "raw" \in ToSet(Routes)
      /\ at \in 1..Len(Routes) /\ Len(Routes) \in {5, 7}
  BY ReachedRoute DEF Raw
<1>2. at = Len(Routes)
  BY <1>1, RoutesAre
<1>3. CASE UnderData /\ Found(TailPath)
  <2> DEFINE key == TailPath
             status == RawStatus(key)
             a == [by |-> "raw", key |-> key, status |-> status, links |-> <<>>]
  <2>1. Answer("raw", key, status, <<>>) /\ status \in {200, 404}
    BY <1>3 DEF Raw, RawStatus
  <2>2. Proper(request, a)
    <3>1. a.by = "raw" /\ a.key = key /\ a.status = RawStatus(key)
      OBVIOUS
    <3> HIDE DEF a
    <3> QED BY <1>3, <3>1, Asked DEF Proper
  <2> HIDE DEF status
  <2> QED BY <1>1, <2>1, <2>2, ShortAnswerKeeps
<1>4. CASE ~(UnderData /\ Found(TailPath))
  <2>1. Fall(404)
    BY <1>4 DEF Raw
  <2>2. ASSUME NEW i \in DOMAIN keys
        PROVE  ~(request.path = DataPath \o keys[i] /\ keys[i] # <<Empty>>)
    BY <1>4, Asked
  <2>3. at # Len(Routes) - 1 /\ at # Len(Routes) - 3 /\ at # Len(Routes) - 2
    BY <1>1, <1>2
  <2> QED BY <1>1, <2>1, <2>2, <2>3, FallKeeps
<1> QED BY <1>3, <1>4

LEMMA NextSite == SiteInv /\ [Next]_vars => SiteInv'
<1> SUFFICES ASSUME SiteInv, [Next]_vars PROVE SiteInv'
  OBVIOUS
<1>1. CASE UNCHANGED vars
  <2>1. TypeOK' /\ TodoInv' /\ (request' # None => OnItsWay(at)')
    BY <1>1 DEF vars, SiteInv, TypeOK, TodoInv, OnItsWay, Routes
  <2>2. \A r \in DOMAIN answers' : Proper(r, answers[r])'
    BY <1>1 DEF vars, SiteInv, Proper, RawStatus
  <2>3. \A r \in DOMAIN answers' : Listing(r, answers[r])'
    BY <1>1 DEF vars, SiteInv, Listing
  <2>4. keys' \in Seq(Paths) /\ NoDoubles(keys)'
    BY <1>1 DEF vars, SiteInv, NoDoubles
  <2> QED BY <2>1, <2>2, <2>3, <2>4 DEF SiteInv
<1>2. CASE Visit
  BY <1>2, VisitKeeps
<1>3. CASE ListDatasets("index_json") \/ ListDatasets("dataset_list")
  BY <1>3, ListKeeps
<1>4. CASE Index
  BY <1>4, IndexKeeps
<1>5. CASE Folder
  BY <1>5, FolderKeeps
<1>6. CASE Das
  BY <1>6, DasKeeps
<1>7. CASE DdsText
  BY <1>7, DdsKeeps
<1>8. CASE DodsBody
  BY <1>8, DodsKeeps
<1>9. CASE Raw
  BY <1>9, RawKeeps
<1> QED BY <1>1, <1>2, <1>3, <1>4, <1>5, <1>6, <1>7, <1>8, <1>9 DEF Next

\* For every data directory, build, command line and order of the map: the
\* invariant that carries a request to the filter that answers it.
THEOREM SiteInvariant == Spec => []SiteInv
<1> QED BY InitSite, NextSite, PTL DEF Spec

\* The state keeps its types: the filters see a request in their order, and an
\* answer has a status the program sends.
THEOREM TypeCorrect == Spec => []TypeOK
<1>1. SiteInv => TypeOK
  BY DEF SiteInv
<1> QED BY <1>1, SiteInvariant, PTL

\* Every URL of a dataset is answered for that dataset by the filter of its
\* suffix, whatever else is in the data directory: with and without the
\* catalog before it, and also where a filter rejects after the dataset was
\* found (filters.rs:17).
THEOREM DatasetsAnswer == Spec => []DatasetsAnswerForThemselves
<1>1. SiteInv => DatasetsAnswerForThemselves
  <2> SUFFICES ASSUME SiteInv, NEW r \in DOMAIN answers, NEW i \in DOMAIN keys
      PROVE LET path == DataPath \o keys[i]
                a == answers[r]
                by == [route |-> a.by, key |-> a.key, status |-> a.status]
            IN  /\ r.path = path /\ keys[i] # <<Empty>> =>
                      by = [route |-> "raw", key |-> keys[i], status |-> RawStatus(keys[i])]
                /\ r.path = WithSuffix(path, "das") =>
                      by = [route |-> "das", key |-> keys[i], status |-> 200]
                /\ r.path = WithSuffix(path, "dds") =>
                      by = [route |-> "dds", key |-> keys[i],
                            status |-> IF r.query = "misfit" THEN 400 ELSE 200]
                /\ r.path = WithSuffix(path, "dods") =>
                      IF r.query = "misfit" THEN a.status = 500
                      ELSE by = [route |-> "dods", key |-> keys[i], status |-> 200]
    BY SMTT(40) DEF DatasetsAnswerForThemselves
  <2>1. Proper(r, answers[r])
    BY DEF SiteInv
  <2> QED BY <2>1 DEF Proper
<1> QED BY <1>1, SiteInvariant, PTL

\* A page of the catalog links to every dataset and to every folder directly
\* below it, and to each of them once: for every data directory, in whatever
\* order the map yields its keys.
THEOREM PagesList == Spec => []PagesListEachOnce
<1>1. SiteInv => PagesListEachOnce
  <2> SUFFICES ASSUME SiteInv, NEW r \in DOMAIN answers,
                      answers[r].by = "folder", answers[r].status = 200
      PROVE LET folder == DataPath \o WithoutSlash(TailOf(r.path))
                below == { DataPath \o keys[i] : i \in { j \in DOMAIN keys :
                              IsStrictPrefix(folder, DataPath \o keys[j]) } }
                files == { p \in below : Len(p) = Len(folder) + 1 }
                folders == { SubSeq(p, 1, Len(folder) + 1) : p \in below \ files }
                links == answers[r].links
            IN  /\ ToSet(links) = { <<Empty>>, Append(DataPath, Empty) } \cup folders
                        \cup UNION { ToSet(DatasetLinks(p)) : p \in files }
                /\ Cardinality(ToSet(links)) = Len(links)
    BY DEF PagesListEachOnce
  <2> DEFINE tail == TailOf(r.path)
             w == WithoutSlash(tail)
             links == answers[r].links
             folder == DataPath \o w
             below == { DataPath \o keys[i] : i \in { j \in DOMAIN keys :
                           IsStrictPrefix(folder, DataPath \o keys[j]) } }
             files == { p \in below : Len(p) = Len(folder) + 1 }
             folders == { SubSeq(p, 1, Len(folder) + 1) : p \in below \ files }
             A == FolderNamesIn(w, ToSet(keys))
             B == FileNamesIn(w, ToSet(keys))
  <2>1. r.path \in Paths /\ IsFolder(keys, tail) /\ links = PageLinks(keys, tail)
    BY DEF SiteInv, Listing
  <2>2. /\ args \in CommandLines /\ keys \in Seq(Paths) /\ NoDoubles(keys)
        /\ ToSet(keys) = Keys(DataOf(args))
    BY DEF SiteInv, TypeOK
  <2>3. tail \in Paths /\ w \in Seq(Names)
    BY <2>1, TailIsPath, FolderOf
  <2> HIDE DEF tail, links
  <2>4. /\ ToSet(links) = { <<Empty>>, Append(DataPath, Empty) }
                          \cup { PathOf(w, a) : a \in A }
                          \cup UNION { ToSet(DatasetLinks(PathOf(w, b))) : b \in B }
        /\ Cardinality(ToSet(links)) = Len(links)
    BY <2>1, <2>2, <2>3, PageIs
  <2> HIDE DEF w
  <2>5. files = { PathOf(w, b) : b \in B } /\ folders = { PathOf(w, a) : a \in A }
    BY <2>2, <2>3, BelowIs
  <2> HIDE DEF files, folders, A, B
  <2>6. { ToSet(DatasetLinks(p)) : p \in files } = { ToSet(DatasetLinks(PathOf(w, b))) : b \in B }
    BY <2>5
  <2>7. ToSet(links) = { <<Empty>>, Append(DataPath, Empty) } \cup folders
                       \cup UNION { ToSet(DatasetLinks(p)) : p \in files }
    BY <2>4, <2>5, <2>6
  <2> QED BY <2>4, <2>7 DEF files, folders, below, folder, w, tail, links
<1> QED BY <1>1, SiteInvariant, PTL

-----------------------------------------------------------------------------
(* What the visitor of the catalog meets.                                   *)

\* The first n folders of a key, and what is in them of it.
LEMMA WayDown ==
  ASSUME NEW k \in Paths, NEW n \in Nat, n < Len(k)
  PROVE  LET w == SubSeq(k, 1, n)
         IN  /\ w \in Seq(Names) /\ Len(w) = n
             /\ k[n + 1] \in Names /\ w \o <<k[n + 1]>> = SubSeq(k, 1, n + 1)
             /\ \E r \in Paths : w \o r = k /\ Len(r) = Len(k) - n /\ Head(r) = k[n + 1]
<1> DEFINE w == SubSeq(k, 1, n)
<1>1. k \in Seq(Names) /\ Len(k) \in Nat /\ n + 1 \in 1..Len(k) /\ \A i \in 1..n : i \in 1..Len(k)
  BY DEF Paths
<1>2. w \in Seq(Names) /\ Len(w) = n /\ \A i \in 1..n : w[i] = k[i]
  BY <1>1
<1>3. k[n + 1] \in Names
  BY <1>1
<1>4. w \o <<k[n + 1]>> = SubSeq(k, 1, n + 1)
  <2> DEFINE u == w \o <<k[n + 1]>>
             v == SubSeq(k, 1, n + 1)
  <2>1. u \in Seq(Names) /\ Len(u) = n + 1 /\ u[n + 1] = k[n + 1] /\ \A i \in 1..n : u[i] = w[i]
    <3> HIDE DEF w
    <3> QED BY <1>2, <1>3
  <2>2. v \in Seq(Names) /\ Len(v) = n + 1 /\ \A i \in 1..(n + 1) : v[i] = k[i]
    <3> DEFINE m == n + 1
    <3>1. m \in Nat /\ \A i \in 1..m : i \in 1..Len(k)
      BY <1>1
    <3> HIDE DEF m
    <3>2. SubSeq(k, 1, m) \in Seq(Names) /\ Len(SubSeq(k, 1, m)) = m
          /\ \A i \in 1..m : SubSeq(k, 1, m)[i] = k[i]
      BY <1>1, <3>1
    <3> QED BY <3>2 DEF m
  <2> HIDE DEF u, v, w
  <2>3. \A i \in 1..(n + 1) : i \in 1..n \/ i = n + 1
    OBVIOUS
  <2>4. \A i \in 1..(n + 1) : u[i] = v[i]
    BY <1>2, <2>1, <2>2, <2>3
  <2>5. u = v
    BY <2>1, <2>2, <2>4
  <2> QED BY <2>5 DEF u, v
<1> HIDE DEF w
<1>5. IsStrictPrefix(w, k)
  BY <1>1, <1>2, Beginnings
<1>6. PICK r \in Paths : w \o r = k
  BY <1>1, <1>2, <1>5, Parted
<1>7. Len(r) = Len(k) - n /\ Head(r) = k[n + 1]
  <2>1. r \in Seq(Names) /\ Len(r) \in Nat /\ Len(r) >= 1
    BY DEF Paths
  <2>2. Len(w \o r) = Len(w) + Len(r) /\ (w \o r)[Len(w) + 1] = Head(r)
    BY <1>2, <2>1
  <2>3. Len(k) = n + Len(r) /\ k[n + 1] = Head(r)
    BY <1>2, <1>6, <2>2
  <2> QED BY <1>1, <2>1, <2>3
<1> QED BY <1>2, <1>3, <1>4, <1>6, <1>7 DEF w

\* Where a page says one folder, it is shown for all that is above a dataset.
LEMMA PagesOnTheWay ==
  ASSUME NEW line \in CommandLines, NEW ks \in Seq(Paths), NoDoubles(ks),
         ToSet(ks) = Keys(DataOf(line)), NEW k \in ToSet(ks), k # <<Empty>>,
         NEW n \in Nat, n < Len(k), NEW tail \in Paths, WithoutSlash(tail) = SubSeq(k, 1, n)
  PROVE  LET w == SubSeq(k, 1, n)
         IN  /\ IsFolder(ks, tail)
             /\ Panics(ks, tail) <=> Panics(ks, Append(w, Empty))
             /\ n + 1 < Len(k) => k[n + 1] \in FolderNamesIn(w, ToSet(ks))
             /\ n + 1 = Len(k) => k[n + 1] \in FileNamesIn(w, ToSet(ks))
<1> DEFINE w == SubSeq(k, 1, n)
           K == ToSet(ks)
<1>0. k \in Paths /\ Len(k) \in Nat
  BY KeysAreNames DEF Paths
<1>1. w \in Seq(Names) /\ k[n + 1] \in Names /\ WithoutSlash(tail) = w
  BY <1>0, WayDown
<1>2. PICK r \in Paths : w \o r = k /\ Len(r) = Len(k) - n /\ Head(r) = k[n + 1]
  BY <1>0, WayDown
<1> HIDE DEF w, K
<1>3. ASSUME n + 1 < Len(k) PROVE k[n + 1] \in FolderNamesIn(w, K)
  <2>1. Len(r) > 1
    BY <1>0, <1>2, <1>3
  <2> QED BY <1>1, <1>2, <2>1 DEF FolderNamesIn, K
<1>4. ASSUME n + 1 = Len(k) PROVE k[n + 1] \in FileNamesIn(w, K)
  <2>1. r = <<k[n + 1]>>
    <3>1. r \in Seq(Names) /\ Len(r) = 1
      BY <1>0, <1>2, <1>4 DEF Paths
    <3>2. r = <<Head(r)>>
      BY <3>1
    <3> QED BY <1>2, <3>2
  <2>2. w \o <<k[n + 1]>> \in K
    BY <1>2, <2>1 DEF K
  <2> QED BY <1>1, <2>2 DEF FileNamesIn
<1>5. /\ Files(ks, tail) \in Seq(Names) /\ ToSet(Files(ks, tail)) = FileNamesIn(w, K)
      /\ Folders(ks, tail) \in Seq(Names) /\ ToSet(Folders(ks, tail)) = FolderNamesIn(w, K)
  <2>1. \A x \in ToSet(ks) : ToSet(x) \subseteq Listed
    BY NamesAssumption DEF Listed
  <2> QED BY <1>1, <2>1, ListingIs DEF K
<1>6. IsFolder(ks, tail)
  <2>0. ToSet(<<>>) = {}
    BY DEF ToSet
  <2>1. CASE n + 1 < Len(k)
    <3>1. Folders(ks, tail) # <<>>
      BY <1>3, <1>5, <2>0, <2>1
    <3> QED BY <3>1 DEF IsFolder
  <2>2. CASE n + 1 = Len(k)
    <3>1. Files(ks, tail) # <<>>
      BY <1>4, <1>5, <2>0, <2>2
    <3>2. ASSUME Files(ks, tail) = AsFolder(tail) PROVE FALSE
      <4>1. AsFolder(tail) \in Seq(Names) /\ AsFolder(tail) # <<>> /\ Last(AsFolder(tail)) = Empty
        <5>1. tail \in Seq(Names) /\ tail # <<>> /\ Empty \in Names
          BY NamesOfDatasets DEF Paths
        <5>2. /\ Append(tail, Empty) \in Seq(Names) /\ Append(tail, Empty) # <<>>
              /\ Last(Append(tail, Empty)) = Empty
          BY <5>1 DEF Last
        <5> QED BY <5>1, <5>2 DEF AsFolder
      <4>2. Empty \in ToSet(AsFolder(tail))
        BY <4>1 DEF ToSet, Last
      <4>3. w \o <<Empty>> \in K /\ Empty \in Names
        BY <1>5, <3>2, <4>2 DEF FileNamesIn
      <4>4. Empty \in ToSet(w \o <<Empty>>)
        <5>1. Len(w) + 1 \in DOMAIN (w \o <<Empty>>) /\ (w \o <<Empty>>)[Len(w) + 1] = Empty
          BY <1>1, <4>3
        <5> QED BY <5>1 DEF ToSet
      <4>5. K = {<<Empty>>}
        BY <4>3, <4>4, EmptyKey DEF K
      <4> QED BY <4>5 DEF K
    <3> QED BY <3>1, <3>2 DEF IsFolder
  <2> QED BY <1>0, <2>1, <2>2
<1>7. Panics(ks, tail) <=> Panics(ks, Append(w, Empty))
  <2>1. Empty \in Names
    BY NamesOfDatasets
  <2>2. /\ Append(w, Empty) \in Seq(Names) /\ Append(w, Empty) # <<>>
        /\ Last(Append(w, Empty)) = Empty
    BY <1>1, <2>1 DEF Last
  <2>3. AsFolder(Append(w, Empty)) = Append(w, Empty)
    BY <2>2 DEF AsFolder
  <2>4. Front(Append(w, Empty)) = w
    <3>1. Len(Append(w, Empty)) - 1 = Len(w) /\ SubSeq(Append(w, Empty), 1, Len(w)) = w
      BY <1>1, <2>1
    <3> QED BY <3>1 DEF Front
  <2>5. Front(AsFolder(tail)) = Front(AsFolder(Append(w, Empty)))
    BY <1>1, <2>3, <2>4, FolderOf
  <2>6. Rests(ks, tail) = Rests(ks, Append(w, Empty))
    BY <2>5 DEF Rests
  <2> QED BY <2>6 DEF Panics
<1> QED BY <1>3, <1>4, <1>6, <1>7 DEF w, K

\* A page panics if one of the folders that it would show has a wide name.
LEMMA PanicsIs ==
  ASSUME NEW ks \in Seq(Paths), NoDoubles(ks), NEW tail \in Paths
  PROVE  Panics(ks, tail) <=> FolderNamesIn(WithoutSlash(tail), ToSet(ks)) \cap Wide # {}
<1> DEFINE w == WithoutSlash(tail)
           rests == Rests(ks, tail)
<1>1. /\ rests \in Seq(Paths) /\ NoDoubles(rests)
      /\ ToSet(rests) = {r \in Paths : w \o r \in ToSet(ks)}
  BY RestsAre
<1>2. Panics(ks, tail) <=> ToSet(FolderNames(rests)) \cap Wide # {}
  BY DEF Panics
<1> HIDE DEF rests, w
<1>3. ToSet(FolderNames(rests)) = {a \in Names : \E r \in ToSet(rests) : Len(r) > 1 /\ Head(r) = a}
  BY <1>1, NamesAre
<1>4. ToSet(FolderNames(rests)) = FolderNamesIn(w, ToSet(ks))
  BY <1>1, <1>3 DEF FolderNamesIn
<1> QED BY <1>2, <1>4 DEF w

-----------------------------------------------------------------------------
(* The visit.                                                               *)

\* What the visitor has asked, or will.
Met == DOMAIN answers \cup ToSet(todo) \cup ({request} \ {None})

IsPage(path) ==
  /\ path[1] = DataPath[1]
  /\ ~Panics(keys, TailOf(path)) /\ IsFolder(keys, TailOf(path))

\* The pages of the catalog are shown.
Shown(r, a) ==
  /\ r.path = <<Empty>> => a.links = IndexLinks
  /\ IsPage(r.path) => a.links = PageLinks(keys, TailOf(r.path))

\* Every link that was shown is followed, and no page is passed over: the first
\* three filters of the catalog are index_json, index and folder.
VisitInv ==
  /\ Browse(<<Empty>>) \in Met
  /\ \A r \in DOMAIN answers : \A link \in ToSet(answers[r].links) : Browse(Written(link)) \in Met
  /\ catalog /\ request # None /\ ~request.json =>
        /\ request.path = <<Empty>> => at <= 2
        /\ IsPage(request.path) => at <= 3
  /\ catalog => \A r \in DOMAIN answers : ~r.json => Shown(r, answers[r])

LEMMA CatalogFirst ==
  ASSUME SiteInv, catalog
  PROVE  /\ Len(Routes) = 7 /\ Routes[1] = "index_json" /\ Routes[2] = "index"
         /\ Routes[3] = "folder"
<1> DEFINE r == <<"index_json", "index", "folder">> \o <<"das", "dds", "dods", "raw">>
<1>1. Routes = r
  BY DEF Routes
<1>2. Len(r) = 7
  OBVIOUS
<1>3. r[1] = "index_json" /\ r[2] = "index" /\ r[3] = "folder"
  OBVIOUS
<1> HIDE DEF r
<1> QED BY <1>1, <1>2, <1>3

LEMMA InitVisit == Init => VisitInv
<1> SUFFICES ASSUME Init PROVE VisitInv
  OBVIOUS
<1>1. DOMAIN answers = {} /\ request = None
  BY DEF Init
<1>2. Browse(<<Empty>>) \in ToSet(todo)
  <2> DEFINE b == Browse(<<Empty>>)
  <2>1. todo = <<b>> \o Typed
    BY DEF Init
  <2>2. Typed \in Seq([path : Paths, json : BOOLEAN, query : Queries])
    BY RequestsAssumption
  <2> HIDE DEF b
  <2>3. 1 \in DOMAIN (<<b>> \o Typed) /\ (<<b>> \o Typed)[1] = b
    BY <2>2
  <2> QED BY <2>1, <2>3 DEF ToSet, b
<1> QED BY <1>1, <1>2 DEF VisitInv, Met

LEMMA VisitVisits ==
  ASSUME SiteInv, VisitInv, Visit
  PROVE  VisitInv'
<1>1. /\ todo \in Seq(ToSet(todo)) /\ todo # <<>>
      /\ request' = Head(todo) /\ todo' = Tail(todo) /\ at' = 1
      /\ request = None /\ UNCHANGED <<catalog, args, keys, answers>>
  BY DEF SiteInv, TodoInv, Visit, serverVars
<1>2. ToSet(todo) \subseteq ToSet(todo') \cup {request'}
  <2>1. Len(todo) \in Nat /\ Len(Tail(todo)) = Len(todo) - 1 /\ Head(todo) = todo[1]
        /\ \A i \in 1..(Len(todo) - 1) : Tail(todo)[i] = todo[i + 1]
    BY <1>1
  <2>2. ASSUME NEW i \in 1..Len(todo) PROVE i = 1 \/ todo[i] \in ToSet(Tail(todo))
    <3>1. CASE i # 1
      <4>1. i - 1 \in 1..(Len(todo) - 1) /\ (i - 1) + 1 = i
        BY <2>1, <3>1
      <4>2. Tail(todo)[i - 1] = todo[i] /\ i - 1 \in 1..Len(Tail(todo))
        BY <2>1, <4>1
      <4>3. DOMAIN Tail(todo) = 1..Len(Tail(todo))
        BY <1>1
      <4> QED BY <4>2, <4>3 DEF ToSet
    <3> QED BY <3>1
  <2>3. DOMAIN todo = 1..Len(todo)
    BY <1>1
  <2> QED BY <1>1, <2>1, <2>2, <2>3 DEF ToSet
<1>3. \A r \in ToSet(todo) : r # None
  <2> SUFFICES ASSUME NEW r \in ToSet(todo), r = None PROVE FALSE
    OBVIOUS
  <2>1. r.path \in Paths
    BY DEF SiteInv, TodoInv, Asking
  <2>2. None.path = <<>>
    BY DEF None
  <2> QED BY <2>1, <2>2 DEF Paths
<1>4. Met \subseteq Met'
  <2>1. ASSUME NEW r \in Met PROVE r \in Met'
    <3>1. CASE r \in DOMAIN answers
      BY <1>1, <3>1 DEF Met
    <3>2. CASE r \in ToSet(todo)
      BY <1>2, <1>3, <3>2 DEF Met
    <3> QED BY <1>1, <3>1, <3>2 DEF Met
  <2> QED BY <2>1
<1>5. Browse(<<Empty>>) \in Met'
  BY <1>4 DEF VisitInv
<1>6. \A r \in DOMAIN answers' : \A link \in ToSet(answers'[r].links) : Browse(Written(link)) \in Met'
  BY <1>1, <1>4 DEF VisitInv
<1>7. at' <= 2 /\ at' <= 3
  BY <1>1
<1>8. catalog' => \A r \in DOMAIN answers' : ~r.json => Shown(r, answers[r])'
  BY <1>1 DEF VisitInv, Shown, IsPage
<1> QED BY <1>5, <1>6, <1>7, <1>8 DEF VisitInv

\* A request that is answered, and all of whose links are met.
LEMMA RecordVisits ==
  ASSUME SiteInv, VisitInv, request # None, NEW by, NEW key, NEW status, NEW links,
         answers' = Recorded(by, key, status, links), request' = None,
         UNCHANGED <<catalog, args, keys>>, ToSet(todo) \subseteq ToSet(todo'),
         \A link \in ToSet(links) : Browse(Written(link)) \in Met',
         catalog /\ ~request.json =>
            Shown(request, [by |-> by, key |-> key, status |-> status, links |-> links])
  PROVE  VisitInv'
<1> DEFINE a == [by |-> by, key |-> key, status |-> status, links |-> links]
<1>1. /\ DOMAIN answers' = DOMAIN answers \cup {request}
      /\ \A r \in DOMAIN answers : answers'[r] = answers[r]
      /\ request \notin DOMAIN answers => answers'[request] = a
  BY DEF Recorded
<1>2. a.links = links
  OBVIOUS
<1> HIDE DEF a
<1>3. Met \subseteq Met'
  BY <1>1 DEF Met
<1>4. Browse(<<Empty>>) \in Met'
  BY <1>3 DEF VisitInv
<1>5. ASSUME NEW r \in DOMAIN answers', NEW link \in ToSet(answers'[r].links)
      PROVE  Browse(Written(link)) \in Met'
  <2>1. CASE r \in DOMAIN answers
    BY <1>1, <1>3, <2>1 DEF VisitInv
  <2>2. CASE r \notin DOMAIN answers
    BY <1>1, <1>2, <2>2
  <2> QED BY <2>1, <2>2
<1>6. ASSUME catalog', NEW r \in DOMAIN answers', ~r.json PROVE Shown(r, answers[r])'
  <2>1. Shown(r, answers'[r])
    <3>1. CASE r \in DOMAIN answers
      BY <1>1, <1>6, <3>1 DEF VisitInv
    <3>2. CASE r \notin DOMAIN answers
      BY <1>1, <1>6, <3>2 DEF a
    <3> QED BY <3>1, <3>2
  <2> QED BY <2>1 DEF Shown, IsPage
<1> QED BY <1>4, <1>5, <1>6 DEF VisitInv

LEMMA AnswerVisits ==
  ASSUME SiteInv, VisitInv, request # None, NEW by, NEW key, NEW status, NEW links \in Seq(Paths),
         Answer(by, key, status, links),
         catalog /\ ~request.json =>
            Shown(request, [by |-> by, key |-> key, status |-> status, links |-> links])
  PROVE  VisitInv'
<1> DEFINE e == [i \in 1..Len(links) |-> Browse(Written(links[i]))]
           O == DOMAIN answers \cup ToSet(todo) \cup {request}
           ss == [i \in 1..Len(links) |->
                    LET r == Browse(Written(links[i])) IN IF r \in O THEN <<>> ELSE <<r>>]
           New == {e[i] : i \in 1..Len(links)}
<1>1. /\ todo' = todo \o NewLinks(links) /\ request' = None
      /\ answers' = Recorded(by, key, status, links)
      /\ UNCHANGED <<catalog, args, keys>>
  BY DEF Answer, serverVars
<1>2. /\ Len(links) \in Nat /\ NewLinks(links) = FlattenSeq(ss)
      /\ ss = [i \in 1..Len(links) |-> ss[i]]
      /\ \A i \in 1..Len(links) : ss[i] = IF e[i] \in O THEN <<>> ELSE <<e[i]>>
      /\ \A i \in 1..Len(links) : e[i] = Browse(Written(links[i])) /\ e[i] \in New
  BY DEF NewLinks
<1> HIDE DEF ss, e, New, O
<1>3. ss \in Seq(Seq(New)) /\ Len(ss) = Len(links)
  <2> DEFINE V == Seq(New)
  <2>1. ASSUME NEW i \in 1..Len(links) PROVE ss[i] \in V
    <3>1. e[i] \in New /\ ss[i] \in {<<>>, <<e[i]>>}
      BY <1>2
    <3>2. <<>> \in Seq(New) /\ <<e[i]>> \in Seq(New)
      BY <3>1
    <3> QED BY <3>1, <3>2
  <2> HIDE DEF V
  <2>2. ss \in [1..Len(links) -> V]
    BY <1>2, <2>1
  <2>3. ss \in Seq(V) /\ Len(ss) = Len(links)
    BY <1>2, <2>2
  <2> QED BY <2>3 DEF V
<1>4. /\ NewLinks(links) \in Seq(New)
      /\ ToSet(NewLinks(links)) = UNION {ToSet(ss[i]) : i \in 1..Len(ss)}
  BY <1>2, <1>3, FlattenedOnce
<1>5. ToSet(todo') = ToSet(todo) \cup ToSet(NewLinks(links))
  <2> DEFINE T == ToSet(todo) \cup New
  <2>1. todo \in Seq(T) /\ NewLinks(links) \in Seq(T)
    <3>1. todo \in Seq(ToSet(todo))
      BY DEF SiteInv, TodoInv
    <3> QED BY <1>4, <3>1
  <2> HIDE DEF T
  <2>2. ASSUME NEW u \in Seq(T), NEW v \in Seq(T)
        PROVE  ToSet(u \o v) = ToSet(u) \cup ToSet(v)
    <3>1. /\ DOMAIN (u \o v) = 1..(Len(u) + Len(v)) /\ Len(u) \in Nat /\ Len(v) \in Nat
          /\ DOMAIN u = 1..Len(u) /\ DOMAIN v = 1..Len(v)
      OBVIOUS
    <3>2. \A i \in 1..Len(u) : (u \o v)[i] = u[i] /\ i \in 1..(Len(u) + Len(v))
      OBVIOUS
    <3>3. \A i \in 1..Len(v) : (u \o v)[Len(u) + i] = v[i] /\ Len(u) + i \in 1..(Len(u) + Len(v))
      OBVIOUS
    <3>4. ASSUME NEW i \in 1..(Len(u) + Len(v))
          PROVE  i \in 1..Len(u) \/ (i - Len(u) \in 1..Len(v) /\ Len(u) + (i - Len(u)) = i)
      BY <3>1
    <3>5. ASSUME NEW x \in ToSet(u \o v) PROVE x \in ToSet(u) \cup ToSet(v)
      <4>1. PICK i \in 1..(Len(u) + Len(v)) : x = (u \o v)[i]
        BY <3>1 DEF ToSet
      <4>2. CASE i \in 1..Len(u)
        BY <3>1, <3>2, <4>1, <4>2 DEF ToSet
      <4>3. CASE i - Len(u) \in 1..Len(v) /\ Len(u) + (i - Len(u)) = i
        <5>1. x = v[i - Len(u)]
          BY <3>3, <4>1, <4>3
        <5> QED BY <3>1, <4>3, <5>1 DEF ToSet
      <4> QED BY <3>4, <4>2, <4>3
    <3>6. ASSUME NEW x \in ToSet(u) PROVE x \in ToSet(u \o v)
      BY <3>1, <3>2 DEF ToSet
    <3>7. ASSUME NEW x \in ToSet(v) PROVE x \in ToSet(u \o v)
      BY <3>1, <3>3 DEF ToSet
    <3> QED BY <3>5, <3>6, <3>7
  <2> QED BY <1>1, <2>1, <2>2
<1>6. DOMAIN answers' = DOMAIN answers \cup {request}
  BY <1>1 DEF Recorded
<1>7. ASSUME NEW link \in ToSet(links) PROVE Browse(Written(link)) \in Met'
  <2>1. PICK i \in 1..Len(links) : link = links[i]
    BY DEF ToSet
  <2>2. e[i] = Browse(Written(link))
    BY <1>2, <2>1
  <2>3. CASE e[i] \in O
    BY <1>5, <1>6, <2>2, <2>3 DEF O, Met
  <2>4. CASE e[i] \notin O
    <3>1. ss[i] = <<e[i]>> /\ i \in 1..Len(ss)
      BY <1>2, <1>3, <2>4
    <3>2. e[i] \in ToSet(ss[i])
      BY <3>1 DEF ToSet
    <3>3. e[i] \in ToSet(NewLinks(links))
      BY <1>4, <3>1, <3>2
    <3> QED BY <1>5, <2>2, <3>3 DEF Met
  <2> QED BY <2>3, <2>4
<1>8. ToSet(todo) \subseteq ToSet(todo')
  BY <1>5
<1> QED BY <1>1, <1>7, <1>8, RecordVisits

LEMMA FallVisits ==
  ASSUME SiteInv, VisitInv, request # None, NEW status, Fall(status),
         catalog /\ ~request.json =>
            /\ request.path = <<Empty>> => at = 1
            /\ IsPage(request.path) => at \in {1, 2}
  PROVE  VisitInv'
<1>1. UNCHANGED <<catalog, args, keys, todo>>
  BY DEF Fall, serverVars
<1>2. CASE at = Len(Routes)
  <2>1. request' = None /\ answers' = Recorded("none", <<>>, worst', <<>>)
    BY <1>2 DEF Fall
  <2> DEFINE links == <<>>
             a == [by |-> "none", key |-> <<>>, status |-> worst', links |-> links]
  <2>2. ToSet(links) = {}
    BY DEF ToSet
  <2>3. catalog /\ ~request.json => Shown(request, a)
    <3> SUFFICES ASSUME catalog, ~request.json PROVE Shown(request, a)
      OBVIOUS
    <3>1. at = 7
      BY <1>2, CatalogFirst
    <3>2. /\ request.path = <<Empty>> => at = 1
          /\ IsPage(request.path) => at \in {1, 2}
      OBVIOUS
    <3>3. 7 # 1 /\ 7 \notin {1, 2}
      OBVIOUS
    <3>4. request.path # <<Empty>> /\ ~IsPage(request.path)
      BY <3>1, <3>2, <3>3, Zenon
    <3> HIDE DEF a
    <3> QED BY <3>4 DEF Shown
  <2>4. answers' = Recorded("none", <<>>, worst', links)
    BY <2>1
  <2> HIDE DEF links
  <2> QED BY <1>1, <2>1, <2>2, <2>3, <2>4, RecordVisits
<1>3. CASE at # Len(Routes)
  <2>1. at' = at + 1 /\ UNCHANGED <<request, answers>>
    BY <1>3 DEF Fall
  <2>2. Met' = Met
    BY <1>1, <2>1 DEF Met
  <2>3. IsPage(request.path)' <=> IsPage(request.path)
    BY <1>1, <2>1 DEF IsPage
  <2>4. catalog' /\ request' # None /\ ~request'.json =>
          /\ request'.path = <<Empty>> => at' <= 2
          /\ IsPage(request.path)' => at' <= 3
    <3> SUFFICES ASSUME catalog', request' # None, ~request'.json
                 PROVE  /\ request'.path = <<Empty>> => at' <= 2
                        /\ IsPage(request.path)' => at' <= 3
      OBVIOUS
    <3>1. /\ request.path = <<Empty>> => at = 1
          /\ IsPage(request.path) => at \in {1, 2}
      BY <1>1, <2>1
    <3>2. 1 + 1 <= 2 /\ \A i \in {1, 2} : i + 1 <= 3
      OBVIOUS
    <3> QED BY <2>1, <2>3, <3>1, <3>2
  <2>5. catalog' => \A r \in DOMAIN answers' : ~r.json => Shown(r, answers[r])'
    BY <1>1, <2>1 DEF VisitInv, Shown, IsPage
  <2>6. /\ Browse(<<Empty>>) \in Met'
        /\ \A r \in DOMAIN answers' : \A link \in ToSet(answers'[r].links) :
              Browse(Written(link)) \in Met'
    BY <2>1, <2>2 DEF VisitInv
  <2> QED BY <2>4, <2>5, <2>6 DEF VisitInv
<1> QED BY <1>2, <1>3

LEMMA ShortVisits ==
  ASSUME SiteInv, VisitInv, request # None, NEW by, NEW key, NEW status,
         Answer(by, key, status, <<>>),
         catalog /\ ~request.json => request.path # <<Empty>> /\ ~IsPage(request.path)
  PROVE  VisitInv'
<1> DEFINE links == <<>>
           a == [by |-> by, key |-> key, status |-> status, links |-> links]
<1>1. links \in Seq(Paths)
  OBVIOUS
<1>2. Answer(by, key, status, links)
  OBVIOUS
<1>3. catalog /\ ~request.json => Shown(request, a)
  <2> HIDE DEF a
  <2> QED BY DEF Shown
<1> HIDE DEF links
<1> QED BY <1>1, <1>2, <1>3, AnswerVisits

\* No page of the catalog gets as far as the filters of the datasets.
LEMMA PagesComeFirst ==
  ASSUME SiteInv, VisitInv, request # None, catalog, ~request.json
  PROVE  /\ request.path = <<Empty>> => Routes[at] \in {"index_json", "index"}
         /\ IsPage(request.path) => Routes[at] \in {"index_json", "index", "folder"}
         /\ Routes[at] = "index_json" => at = 1 \/ at > 3
         /\ Routes[at] = "index" => at = 2 \/ at > 3
         /\ at \in 1..7
<1>1. at \in 1..7
  <2>1. at \in DOMAIN Routes
    BY DEF SiteInv, TypeOK
  <2>2. DOMAIN Routes = 1..Len(Routes)
    BY RoutesAre
  <2>3. Len(Routes) = 7
    BY CatalogFirst
  <2> QED BY <2>1, <2>2, <2>3
<1>2. Routes[1] = "index_json" /\ Routes[2] = "index" /\ Routes[3] = "folder"
  BY CatalogFirst
<1>3. at = 1 \/ at = 2 \/ at = 3 \/ at > 3
  BY <1>1
<1>4. (request.path = <<Empty>> => at <= 2) /\ (IsPage(request.path) => at <= 3)
  BY DEF VisitInv
<1>5. request.path = <<Empty>> => at = 1 \/ at = 2
  BY <1>1, <1>4
<1>6. IsPage(request.path) => at = 1 \/ at = 2 \/ at = 3
  BY <1>1, <1>4
<1> QED BY <1>1, <1>2, <1>3, <1>5, <1>6

LEMMA ListVisits ==
  ASSUME SiteInv, VisitInv, NEW route \in {"index_json", "dataset_list"}, ListDatasets(route)
  PROVE  VisitInv'
<1>1. request # None /\ Routes[at] = route
  BY ReachedRoute DEF ListDatasets
<1>2. ASSUME NEW status, Fall(status) PROVE VisitInv'
  <2>1. ASSUME catalog, ~request.json
        PROVE  /\ request.path = <<Empty>> => at = 1
               /\ IsPage(request.path) => at \in {1, 2}
    <3>1. /\ request.path = <<Empty>> => route = "index_json"
          /\ IsPage(request.path) => route = "index_json"
      BY <1>1, <2>1, PagesComeFirst
    <3>2. route = "index_json" => at = 1 \/ at > 3
      BY <1>1, <2>1, PagesComeFirst
    <3>3. (request.path = <<Empty>> => at <= 2) /\ (IsPage(request.path) => at <= 3)
      BY <1>1, <2>1 DEF VisitInv
    <3>4. at \in 1..7
      BY <1>1, <2>1, PagesComeFirst
    <3> QED BY <3>1, <3>2, <3>3, <3>4
  <2> QED BY <1>1, <1>2, <2>1, FallVisits
<1>3. ASSUME UnderData, AtEnd, request.json PROVE VisitInv'
  <2>1. Answer(route, <<>>, 200, <<>>)
    BY <1>3 DEF ListDatasets
  <2> QED BY <1>1, <1>3, <2>1, ShortVisits
<1>4. Fall(404) \/ Fall(400) \/ (UnderData /\ AtEnd /\ request.json)
  BY DEF ListDatasets
<1> QED BY <1>2, <1>3, <1>4

LEMMA NotThere == <<Empty>>[1] # DataPath[1]
<1>1. <<Empty>>[1] = <<"">> /\ DataPath[1] = <<"data">>
  BY DEF Empty, DataPath
<1>2. <<"">>[1] = "" /\ <<"data">>[1] = "data" /\ "" # "data"
  OBVIOUS
<1> QED BY <1>1, <1>2

LEMMA IndexVisits ==
  ASSUME SiteInv, VisitInv, Index
  PROVE  VisitInv'
<1>1. request # None /\ Routes[at] = "index"
  BY ReachedRoute DEF Index
<1>2. CASE request.path = <<Empty>>
  <2>1. Answer("index", <<>>, 200, IndexLinks)
    BY <1>2 DEF Index
  <2>2. IndexLinks \in Seq(Paths)
    <3>1. DataPath \in Paths
      BY DataPathIs DEF DataPath, Paths
    <3> QED BY <3>1, Singletons, Zenon DEF IndexLinks
  <2> DEFINE a == [by |-> "index", key |-> <<>>, status |-> 200, links |-> IndexLinks]
  <2>3. Shown(request, a)
    <3>1. a.links = IndexLinks
      OBVIOUS
    <3>2. ~IsPage(request.path)
      BY <1>2, NotThere DEF IsPage
    <3> HIDE DEF a
    <3> QED BY <3>1, <3>2 DEF Shown
  <2> QED BY <1>1, <2>1, <2>2, <2>3, AnswerVisits
<1>3. CASE request.path # <<Empty>>
  <2>1. Fall(404)
    BY <1>3 DEF Index
  <2>2. ASSUME catalog, ~request.json, IsPage(request.path) PROVE at \in {1, 2}
    <3>1. at = 2 \/ at > 3
      BY <1>1, <2>2, PagesComeFirst
    <3>2. at <= 3
      BY <1>1, <2>2 DEF VisitInv
    <3>3. at \in 1..7
      BY <1>1, <2>2, PagesComeFirst
    <3> QED BY <3>1, <3>2, <3>3
  <2> QED BY <1>1, <1>3, <2>1, <2>2, FallVisits
<1> QED BY <1>2, <1>3

LEMMA FolderVisits ==
  ASSUME SiteInv, VisitInv, Folder
  PROVE  VisitInv'
<1>1. request # None /\ Routes[at] = "folder"
  BY ReachedRoute DEF Folder
<1>2. catalog /\ ~request.json => request.path # <<Empty>>
  BY <1>1, PagesComeFirst
<1>3. IsPage(request.path) <=> UnderData /\ ~Panics(keys, TailPath) /\ IsFolder(keys, TailPath)
  BY DEF IsPage, UnderData, TailPath
<1>4. CASE ~UnderData \/ (UnderData /\ ~Panics(keys, TailPath) /\ ~IsFolder(keys, TailPath))
  <2>1. Fall(404)
    BY <1>4 DEF Folder
  <2> QED BY <1>1, <1>2, <1>3, <1>4, <2>1, FallVisits
<1>5. CASE UnderData /\ Panics(keys, TailPath)
  <2>1. Answer("folder", <<>>, 0, <<>>)
    BY <1>5 DEF Folder
  <2> QED BY <1>1, <1>2, <1>3, <1>5, <2>1, ShortVisits
<1>6. CASE UnderData /\ ~Panics(keys, TailPath) /\ IsFolder(keys, TailPath)
  <2> DEFINE links == PageLinks(keys, TailPath)
             a == [by |-> "folder", key |-> <<>>, status |-> 200, links |-> links]
  <2>1. Answer("folder", <<>>, 200, links)
    BY <1>6 DEF Folder
  <2>2. links \in Seq(Paths)
    <3>1. request.path \in Paths
      BY <1>1 DEF SiteInv, TodoInv, Asking
    <3>2. TailPath \in Paths
      BY <3>1, TailIsPath DEF TailPath
    <3>3. /\ args \in CommandLines /\ keys \in Seq(Paths) /\ NoDoubles(keys)
          /\ ToSet(keys) = Keys(DataOf(args))
      BY DEF SiteInv, TypeOK
    <3> QED BY <3>2, <3>3, PageIs
  <2>3. links = PageLinks(keys, TailOf(request.path))
    BY DEF TailPath
  <2>4. a.links = links
    OBVIOUS
  <2> HIDE DEF links, a
  <2>5. catalog /\ ~request.json => Shown(request, a)
    BY <1>2, <2>3, <2>4 DEF Shown
  <2> QED BY <1>1, <2>1, <2>2, <2>5, AnswerVisits DEF a
<1> QED BY <1>4, <1>5, <1>6

\* das, dds, dods and raw.
LEMMA LateVisits ==
  ASSUME SiteInv, VisitInv, Das \/ DdsText \/ DodsBody \/ Raw
  PROVE  VisitInv'
<1>1. request # None /\ Routes[at] \in {"das", "dds", "dods", "raw"}
  BY ReachedRoute DEF Das, DdsText, DodsBody, Raw
<1>2. catalog /\ ~request.json => request.path # <<Empty>> /\ ~IsPage(request.path)
  BY <1>1, PagesComeFirst
<1>3. \/ \E by, key, status : Answer(by, key, status, <<>>)
      \/ \E status : Fall(status)
  <2>1. Das => Fall(404) \/ Answer("das", WithoutSuffix, 200, <<>>)
    BY DEF Das
  <2>2. DdsText => Fall(404) \/ Answer("dds", WithoutSuffix, IF Misfit THEN 400 ELSE 200, <<>>)
    BY DEF DdsText
  <2>3. DodsBody => Fall(404) \/ Fall(500) \/ Answer("dods", WithoutSuffix, 200, <<>>)
    BY DEF DodsBody
  <2>4. Raw => Fall(404) \/ Answer("raw", TailPath, RawStatus(TailPath), <<>>)
    BY DEF Raw
  <2> QED BY <2>1, <2>2, <2>3, <2>4, SMTT(40)
<1>4. ASSUME NEW by, NEW key, NEW status, Answer(by, key, status, <<>>) PROVE VisitInv'
  BY <1>1, <1>2, <1>4, ShortVisits
<1>5. ASSUME NEW status, Fall(status) PROVE VisitInv'
  BY <1>1, <1>2, <1>5, FallVisits
<1> QED BY <1>3, <1>4, <1>5

LEMMA NextVisit == SiteInv /\ VisitInv /\ [Next]_vars => VisitInv'
<1> SUFFICES ASSUME SiteInv, VisitInv, [Next]_vars PROVE VisitInv'
  OBVIOUS
<1>1. CASE UNCHANGED vars
  BY <1>1 DEF vars, VisitInv, Met, Shown, IsPage
<1>2. CASE Visit
  BY <1>2, VisitVisits
<1>3. CASE ListDatasets("index_json") \/ ListDatasets("dataset_list")
  BY <1>3, ListVisits
<1>4. CASE Index
  BY <1>4, IndexVisits
<1>5. CASE Folder
  BY <1>5, FolderVisits
<1>6. CASE Das \/ DdsText \/ DodsBody \/ Raw
  BY <1>6, LateVisits
<1> QED BY <1>1, <1>2, <1>3, <1>4, <1>5, <1>6 DEF Next

-----------------------------------------------------------------------------
(* Down the folders.                                                        *)

LEMMA Unescaped ==
  ASSUME NEW p \in Paths, \A i \in 1..Len(p) : p[i] \notin DOMAIN Escaped
  PROVE  Written(p) = p
<1>1. p \in Seq(Names) /\ DOMAIN p = 1..Len(p) /\ p = [i \in DOMAIN p |-> p[i]]
  BY DEF Paths
<1>2. Written(p) = [i \in DOMAIN p |-> p[i]]
  BY <1>1 DEF Written
<1> QED BY <1>1, <1>2

LEMMA BelowData ==
  ASSUME NEW v \in Seq(Names)
  PROVE  LET p == DataPath \o v
         IN  /\ p \in Paths /\ Len(p) = Len(v) + 1 /\ p[1] = DataPath[1]
             /\ \A i \in 1..Len(v) : p[i + 1] = v[i]
<1> DEFINE d == <<"data">>
<1>1. d \in Names
  <2>1. "data" \in Parts
    BY PartsAssumption
  <2> QED BY <2>1, Singletons, Zenon DEF Names
<1>2. DataPath = <<d>>
  BY DEF DataPath
<1> HIDE DEF d
<1>3. DataPath[1] = d
  BY <1>2
<1>4. /\ <<d>> \o v \in Seq(Names) /\ Len(<<d>> \o v) = Len(v) + 1 /\ (<<d>> \o v)[1] = d
      /\ Len(v) \in Nat
  BY <1>1
<1>5. \A i \in 1..Len(v) : (<<d>> \o v)[i + 1] = v[i]
  BY <1>1
<1>6. <<d>> \o v # <<>>
  BY <1>4
<1> QED BY <1>2, <1>3, <1>4, <1>5, <1>6 DEF Paths

\* The data directory or a folder in it, without a slash at the end.
LEMMA FolderUrls ==
  ASSUME NEW w \in Seq(Names), Empty \notin ToSet(w)
  PROVE  LET p == DataPath \o w
         IN  /\ p \in Paths /\ p[1] = DataPath[1] /\ TailOf(p) \in Paths
             /\ WithoutSlash(TailOf(p)) = w
<1>1. DataPath \o w \in Paths /\ (DataPath \o w)[1] = DataPath[1]
  BY BelowData
<1>2. CASE w = <<>>
  <2>1. DataPath \o w = DataPath
    <3> DEFINE d == DataPath
    <3>1. d \in Seq(Names)
      BY DataPathIs
    <3> HIDE DEF d
    <3>2. d \o <<>> = d
      BY <3>1
    <3> QED BY <1>2, <3>2 DEF d
  <2>2. Len(DataPath) = 1
    BY DEF DataPath
  <2>3. TailOf(DataPath) = <<Empty>>
    BY <2>2 DEF TailOf
  <2>4. <<Empty>> \in Paths
    BY NamesOfDatasets
  <2>5. WithoutSlash(<<Empty>>) = <<>>
    <3> DEFINE e == Empty
    <3>1. Empty \in Names
      BY NamesOfDatasets
    <3> HIDE DEF e
    <3>2. Last(<<e>>) = e /\ Front(<<e>>) = <<>>
      BY DEF Last, Front
    <3> QED BY <3>2 DEF WithoutSlash, e
  <2> QED BY <1>1, <1>2, <2>1, <2>3, <2>4, <2>5
<1>3. CASE w # <<>>
  <2>1. w \in Paths
    BY <1>3 DEF Paths
  <2>2. (DataPath \o w)[1] = DataPath[1] /\ TailOf(DataPath \o w) = w
    BY <2>1, TailsOfRequests
  <2>3. Last(w) # Empty
    <3>1. Len(w) \in DOMAIN w
      BY <1>3
    <3> QED BY <3>1 DEF ToSet, Last
  <2>4. WithoutSlash(w) = w
    BY <2>3 DEF WithoutSlash
  <2> QED BY <1>1, <2>1, <2>2, <2>4
<1> QED BY <1>2, <1>3

\* Where no page on the way panics, no folder on it has a wide name.
LEMMA ClearWay ==
  ASSUME NEW line \in CommandLines, NEW ks \in Seq(Paths), NoDoubles(ks),
         ToSet(ks) = Keys(DataOf(line)), NEW k \in ToSet(ks), k # <<Empty>>,
         \A tail \in OnTheWay(k) : ~Panics(ks, tail)
  PROVE  ToSet(Front(k)) \cap Wide = {}
<1>1. k \in Paths /\ k \in Seq(Names) /\ Len(k) \in Nat /\ Len(k) >= 1
  BY KeysAreNames DEF Paths
<1>2. Front(k) \in Seq(Names) /\ Len(Front(k)) = Len(k) - 1 /\ \A j \in 1..(Len(k) - 1) : Front(k)[j] = k[j]
  BY <1>1, Fronts
<1> SUFFICES ASSUME NEW j \in 1..(Len(k) - 1), k[j] \in Wide PROVE FALSE
  <2>1. DOMAIN Front(k) = 1..(Len(k) - 1)
    BY <1>2
  <2> QED BY <1>2, <2>1 DEF ToSet
<1> DEFINE n == j - 1
           w == SubSeq(k, 1, n)
           tail == Append(w, Empty)
<1>3. n \in Nat /\ n < Len(k) /\ n + 1 < Len(k) /\ n + 1 = j /\ n \in 0..(Len(k) - 1)
  BY <1>1
<1>4. tail \in OnTheWay(k)
  BY <1>3 DEF OnTheWay
<1> HIDE DEF n
<1>5. w \in Seq(Names)
  BY <1>1, <1>3, WayDown
<1>6. tail \in Paths /\ WithoutSlash(tail) = w
  <2> HIDE DEF w
  <2>1. Empty \in Names
    BY NamesOfDatasets
  <2>2. tail = w \o <<Empty>>
    BY <1>5, <2>1
  <2>3. w \o <<Empty>> \in Paths /\ Last(w \o <<Empty>>) = Empty /\ Front(w \o <<Empty>>) = w
    BY <1>5, <2>1, InFolder
  <2> QED BY <2>2, <2>3 DEF WithoutSlash
<1>7. k[n + 1] \in FolderNamesIn(w, ToSet(ks))
  BY <1>3, <1>6, PagesOnTheWay
<1>8. ~Panics(ks, tail)
  BY <1>4
<1>9. FolderNamesIn(w, ToSet(ks)) \cap Wide = {}
  BY <1>6, <1>8, PanicsIs
<1> QED BY <1>3, <1>7, <1>9

\* When the visit is over, everything met has been answered.
LEMMA AllAnswered ==
  ASSUME VisitOver
  PROVE  Met = DOMAIN answers
<1>1. request = None /\ todo = <<>>
  BY DEF VisitOver
<1>2. ToSet(todo) = {}
  BY <1>1 DEF ToSet
<1> QED BY <1>1, <1>2 DEF Met

\* What a folder on the way to a dataset links to has been asked for.
LEMMA LinksFollowed ==
  ASSUME SiteInv, VisitInv, catalog, VisitOver, NEW k \in ToSet(keys), k # <<Empty>>,
         \A tail \in OnTheWay(k) : ~Panics(keys, tail),
         NEW n \in Nat, n < Len(k),
         Browse(DataPath \o SubSeq(k, 1, n)) \in DOMAIN answers
  PROVE  /\ n + 1 < Len(k) =>
              Browse(Written(DataPath \o SubSeq(k, 1, n + 1))) \in DOMAIN answers
         /\ n + 1 = Len(k) => \A link \in ToSet(DatasetLinks(DataPath \o k)) :
              Browse(Written(link)) \in DOMAIN answers
<1> DEFINE w == SubSeq(k, 1, n)
           a == k[n + 1]
           p == DataPath \o w
           r == Browse(p)
           K == ToSet(keys)
<1>1. /\ args \in CommandLines /\ keys \in Seq(Paths) /\ NoDoubles(keys)
      /\ K = Keys(DataOf(args))
  BY DEF SiteInv, TypeOK
<1>2. k \in Paths /\ k \in Seq(Names) /\ Len(k) \in Nat
  BY <1>1, KeysAreNames DEF Paths
<1>3. w \in Seq(Names) /\ a \in Names /\ w \o <<a>> = SubSeq(k, 1, n + 1)
      /\ \A i \in 1..n : w[i] = k[i] /\ i \in 1..Len(k)
  <2>1. w \in Seq(Names) /\ a \in Names /\ w \o <<a>> = SubSeq(k, 1, n + 1)
    BY <1>2, WayDown
  <2>2. \A i \in 1..n : w[i] = k[i] /\ i \in 1..Len(k)
    BY <1>2
  <2> QED BY <2>1, <2>2
<1>4. Len(w) = n
  BY <1>2, WayDown
<1>5. Empty \notin ToSet(w)
  <2>1. Empty \notin ToSet(k)
    BY <1>1, EmptyKey
  <2>2. DOMAIN k = 1..Len(k) /\ DOMAIN w = 1..n
    BY <1>2, <1>3, <1>4
  <2> HIDE DEF w
  <2> QED BY <1>3, <2>1, <2>2 DEF ToSet
<1>6. n + 1 = Len(k) => w \o <<a>> = k
  BY <1>2, <1>3
<1> HIDE DEF w, K, a
<1>7. p \in Paths /\ p[1] = DataPath[1] /\ TailOf(p) \in Paths /\ WithoutSlash(TailOf(p)) = w
  BY <1>3, <1>5, FolderUrls
<1>8. /\ IsFolder(keys, TailOf(p))
      /\ Panics(keys, TailOf(p)) <=> Panics(keys, Append(w, Empty))
      /\ n + 1 < Len(k) => a \in FolderNamesIn(w, K)
      /\ n + 1 = Len(k) => a \in FileNamesIn(w, K)
  BY <1>1, <1>7, PagesOnTheWay DEF w, K, a
<1>9. ~Panics(keys, Append(w, Empty))
  <2>1. n \in 0..(Len(k) - 1)
    BY <1>2
  <2> QED BY <2>1 DEF OnTheWay, w
<1>10. IsPage(p)
  BY <1>7, <1>8, <1>9 DEF IsPage
<1>11. r.path = p /\ ~r.json /\ r \in DOMAIN answers
  BY DEF Browse, w
<1>12. answers[r].links = PageLinks(keys, TailOf(p))
  <2> HIDE DEF r
  <2> QED BY <1>10, <1>11 DEF VisitInv, Shown
<1>13. ToSet(answers[r].links) =
          { <<Empty>>, Append(DataPath, Empty) }
          \cup { PathOf(w, x) : x \in FolderNamesIn(w, K) }
          \cup UNION { ToSet(DatasetLinks(PathOf(w, b))) : b \in FileNamesIn(w, K) }
  <2> DEFINE tail == TailOf(p)
             links == PageLinks(keys, tail)
  <2>1. tail \in Paths /\ IsFolder(keys, tail) /\ WithoutSlash(tail) = w /\ answers[r].links = links
    BY <1>7, <1>8, <1>12
  <2> HIDE DEF tail, r, p
  <2>2. ToSet(keys) = Keys(DataOf(args))
    BY <1>1 DEF K
  <2>3. ToSet(links) =
          { <<Empty>>, Append(DataPath, Empty) }
          \cup { PathOf(WithoutSlash(tail), x) : x \in FolderNamesIn(WithoutSlash(tail), ToSet(keys)) }
          \cup UNION { ToSet(DatasetLinks(PathOf(WithoutSlash(tail), b))) :
                          b \in FileNamesIn(WithoutSlash(tail), ToSet(keys)) }
    BY <1>1, <2>1, <2>2, PageIs
  <2> HIDE DEF links
  <2> QED BY <2>1, <2>3 DEF K
<1>14. \A link \in ToSet(answers[r].links) : Browse(Written(link)) \in DOMAIN answers
  BY <1>11, AllAnswered DEF VisitInv
<1>15. PathOf(w, a) = DataPath \o (w \o <<a>>)
  <2>1. <<a>> \in Seq(Names)
    BY <1>3
  <2> QED BY <1>3, <2>1, UnderDataPath DEF PathOf
<1>16. n + 1 < Len(k) => Browse(Written(DataPath \o SubSeq(k, 1, n + 1))) \in DOMAIN answers
  BY <1>3, <1>8, <1>13, <1>14, <1>15
<1>17. ASSUME n + 1 = Len(k), NEW link \in ToSet(DatasetLinks(DataPath \o k))
       PROVE  Browse(Written(link)) \in DOMAIN answers
  <2>1. PathOf(w, a) = DataPath \o k
    BY <1>6, <1>15, <1>17
  <2>2. link \in ToSet(answers[r].links)
    BY <1>8, <1>13, <1>17, <2>1
  <2> QED BY <1>14, <2>2
<1> QED BY <1>16, <1>17

\* The visitor comes down all the folders above a dataset.
LEMMA WholeWay ==
  ASSUME SiteInv, VisitInv, NothingEscaped, catalog, VisitOver,
         NEW k \in ToSet(keys), k # <<Empty>>,
         \A tail \in OnTheWay(k) : ~Panics(keys, tail)
  PROVE  \A n \in Nat : n < Len(k) => Browse(DataPath \o SubSeq(k, 1, n)) \in DOMAIN answers
<1> DEFINE Reaches(n) == n < Len(k) => Browse(DataPath \o SubSeq(k, 1, n)) \in DOMAIN answers
           P == {n \in Nat : Reaches(n)}
<1>1. /\ args \in CommandLines /\ keys \in Seq(Paths) /\ NoDoubles(keys)
      /\ ToSet(keys) = Keys(DataOf(args))
  BY DEF SiteInv, TypeOK
<1>2. k \in Paths /\ k \in Seq(Names) /\ Len(k) \in Nat /\ Len(k) >= 1
  BY <1>1, KeysAreNames DEF Paths
<1>3. ToSet(Front(k)) \cap Wide = {}
  BY <1>1, ClearWay
<1>4. ToSet(k) \cap DOMAIN Escaped = {} /\ DataPath[1] \notin DOMAIN Escaped
  BY <1>1, <1>3 DEF NothingEscaped
<1>5. \A i \in 1..Len(k) : k[i] \notin DOMAIN Escaped
  <2>1. DOMAIN k = 1..Len(k)
    BY <1>2
  <2> QED BY <1>4, <2>1 DEF ToSet
<1>6. 0 \in P
  <2>1. SubSeq(k, 1, 0) = <<>>
    BY <1>2
  <2>2. DataPath \o <<>> = DataPath
    <3>1. DataPath \in Seq(Names)
      BY DataPathIs
    <3> HIDE DEF P
    <3> QED BY <3>1
  <2>3. Browse(DataPath) \in DOMAIN answers
    <3> DEFINE r == Browse(<<Empty>>)
    <3>1. r \in DOMAIN answers
      BY AllAnswered DEF VisitInv
    <3>2. r.path = <<Empty>> /\ ~r.json
      BY DEF Browse
    <3> HIDE DEF r
    <3>3. answers[r].links = IndexLinks
      BY <3>1, <3>2 DEF VisitInv, Shown
    <3>4. DataPath \in ToSet(IndexLinks)
      <4> DEFINE l == <<DataPath>>
      <4>1. 1 \in DOMAIN l /\ l[1] = DataPath
        OBVIOUS
      <4>2. IndexLinks = l
        BY DEF IndexLinks
      <4> HIDE DEF l
      <4> QED BY <4>1, <4>2 DEF ToSet
    <3>5. Browse(Written(DataPath)) \in DOMAIN answers
      BY <3>1, <3>3, <3>4, AllAnswered DEF VisitInv
    <3>6. Written(DataPath) = DataPath
      <4>1. DataPath \in Paths
        BY DataPathIs DEF Paths, DataPath
      <4>2. Len(DataPath) = 1
        BY DEF DataPath
      <4> QED BY <1>4, <4>1, <4>2, Unescaped
    <3> QED BY <3>5, <3>6
  <2> QED BY <2>1, <2>2, <2>3
<1>7. ASSUME NEW n \in Nat, n \in P PROVE n + 1 \in P
  <2> SUFFICES ASSUME n + 1 < Len(k)
               PROVE  Browse(DataPath \o SubSeq(k, 1, n + 1)) \in DOMAIN answers
    OBVIOUS
  <2> DEFINE v == SubSeq(k, 1, n + 1)
  <2>1. Browse(DataPath \o SubSeq(k, 1, n)) \in DOMAIN answers /\ n < Len(k)
    BY <1>2, <1>7
  <2>2. Browse(Written(DataPath \o v)) \in DOMAIN answers
    BY <2>1, LinksFollowed
  <2>3. v \in Seq(Names) /\ Len(v) = n + 1 /\ \A i \in 1..(n + 1) : v[i] = k[i] /\ i \in 1..Len(k)
    <3> DEFINE m == n + 1
    <3>1. m \in Nat /\ \A i \in 1..m : i \in 1..Len(k)
      BY <1>2
    <3> HIDE DEF m
    <3>2. SubSeq(k, 1, m) \in Seq(Names) /\ Len(SubSeq(k, 1, m)) = m
          /\ \A i \in 1..m : SubSeq(k, 1, m)[i] = k[i]
      BY <1>2, <3>1
    <3> QED BY <3>1, <3>2 DEF m
  <2> HIDE DEF v
  <2>5. /\ Len(DataPath \o v) = n + 2
        /\ (DataPath \o v)[1] = DataPath[1]
        /\ \A i \in 1..(n + 1) : (DataPath \o v)[i + 1] = v[i]
    BY <2>3, BelowData
  <2>6. ASSUME NEW j \in 1..(n + 2) PROVE (DataPath \o v)[j] \notin DOMAIN Escaped
    <3>1. CASE j = 1
      BY <1>4, <2>5, <3>1
    <3>2. CASE j # 1
      <4>1. j - 1 \in 1..(n + 1) /\ (j - 1) + 1 = j
        BY <3>2
      <4>2. (DataPath \o v)[j] = v[j - 1] /\ v[j - 1] = k[j - 1] /\ j - 1 \in 1..Len(k)
        BY <2>3, <2>5, <4>1
      <4> QED BY <1>5, <4>2
    <3> QED BY <3>1, <3>2
  <2>7. DataPath \o v \in Paths
    BY <2>3, BelowData
  <2>8. Written(DataPath \o v) = DataPath \o v
    BY <2>5, <2>6, <2>7, Unescaped
  <2> QED BY <2>2, <2>8 DEF v
<1> HIDE DEF P
<1>8. \A n \in Nat : n \in P
  BY <1>6, <1>7, SetInduction
<1> QED BY <1>8 DEF P

\* The three links of a dataset, as a browser writes them.
LEMMA LinksWritten ==
  ASSUME NEW k \in Paths, \A i \in 1..Len(k) : k[i] \notin DOMAIN Escaped,
         DataPath[1] \notin DOMAIN Escaped,
         \A s \in UrlSuffixes : Append(Last(k), s) \notin DOMAIN Escaped
  PROVE  /\ Written(DataPath \o k) = DataPath \o k
         /\ \A s \in UrlSuffixes : Written(WithSuffix(DataPath \o k, s)) = WithSuffix(DataPath \o k, s)
<1>1. k \in Seq(Names) /\ Len(k) \in Nat /\ Len(k) >= 1
  BY DEF Paths
<1>2. ASSUME NEW v \in Seq(Names), \A i \in 1..Len(v) : v[i] \notin DOMAIN Escaped
      PROVE  Written(DataPath \o v) = DataPath \o v
  <2> DEFINE p == DataPath \o v
  <2>1. /\ p \in Paths /\ Len(p) = Len(v) + 1 /\ p[1] = DataPath[1]
        /\ \A i \in 1..Len(v) : p[i + 1] = v[i]
    BY BelowData
  <2> HIDE DEF p
  <2>2. ASSUME NEW j \in 1..Len(p) PROVE p[j] \notin DOMAIN Escaped
    <3>1. CASE j = 1
      BY <2>1, <3>1
    <3>2. CASE j # 1
      <4>1. Len(v) \in Nat
        OBVIOUS
      <4>2. j - 1 \in 1..Len(v) /\ (j - 1) + 1 = j
        BY <2>1, <3>2, <4>1
      <4>3. p[j] = v[j - 1]
        BY <2>1, <4>2
      <4> QED BY <1>2, <4>2, <4>3
    <3> QED BY <3>1, <3>2
  <2> QED BY <2>1, <2>2, Unescaped DEF p
<1>3. ASSUME NEW s \in UrlSuffixes
      PROVE  Written(WithSuffix(DataPath \o k, s)) = WithSuffix(DataPath \o k, s)
  <2> DEFINE f == Front(k)
             a == Append(Last(k), s)
             v == WithSuffix(k, s)
  <2>1. v \in Seq(Names) /\ WithSuffix(DataPath \o k, s) = DataPath \o v
    BY SuffixedNames DEF Paths
  <2>2. f \in Seq(Names) /\ Len(f) = Len(k) - 1 /\ \A i \in 1..(Len(k) - 1) : f[i] = k[i]
    BY <1>1, Fronts
  <2>3. v = Append(f, a)
    BY DEF WithSuffix
  <2>4. a \in Names
    <3>1. Last(k) \in Names
      BY <1>1 DEF Last
    <3>2. s \in Parts
      BY PartsAssumption DEF UrlSuffixes
    <3> QED BY <3>1, <3>2, AppendOnce
  <2> HIDE DEF f, a, v
  <2>5. Len(v) = Len(k) /\ v[Len(k)] = a /\ \A i \in 1..(Len(k) - 1) : v[i] = k[i]
    BY <1>1, <2>2, <2>3, <2>4
  <2>6. a \notin DOMAIN Escaped
    BY DEF a
  <2>7. ASSUME NEW i \in 1..Len(v) PROVE v[i] \notin DOMAIN Escaped
    <3>1. i = Len(k) \/ i \in 1..(Len(k) - 1)
      BY <1>1, <2>5
    <3>2. i \in 1..Len(k)
      BY <2>5
    <3> QED BY <2>5, <2>6, <3>1, <3>2
  <2> QED BY <1>2, <2>1, <2>7
<1>4. Written(DataPath \o k) = DataPath \o k
  BY <1>1, <1>2
<1> QED BY <1>3, <1>4

LEMMA ReachesAll ==
  ASSUME NothingEscaped, SiteInv, VisitInv
  PROVE  AllAvailable
<1> SUFFICES ASSUME catalog, VisitOver, NEW i \in DOMAIN keys, keys[i] # <<Empty>>,
                    \A tail \in OnTheWay(keys[i]) : ~Panics(keys, tail),
                    NEW link \in ToSet(DatasetLinks(DataPath \o keys[i]))
             PROVE  \E r \in DOMAIN answers :
                       /\ answers[r].key = keys[i]
                       /\ answers[r].status = IF link = DataPath \o keys[i]
                                              THEN RawStatus(keys[i]) ELSE 200
                       /\ r = Browse(Written(link))
  BY DEF AllAvailable
<1> DEFINE k == keys[i]
           path == DataPath \o k
           r == Browse(link)
<1>1. /\ args \in CommandLines /\ keys \in Seq(Paths) /\ NoDoubles(keys)
      /\ ToSet(keys) = Keys(DataOf(args)) /\ k \in ToSet(keys)
  BY DEF SiteInv, TypeOK, ToSet
<1>2. k \in Paths /\ k \in Seq(Names) /\ Len(k) \in Nat /\ Len(k) >= 1 /\ Supported(Last(k))
  BY <1>1, KeysAreNames DEF Paths
<1>3. ToSet(Front(k)) \cap Wide = {}
  BY <1>1, ClearWay
<1>4. /\ ToSet(k) \cap DOMAIN Escaped = {} /\ DataPath[1] \notin DOMAIN Escaped
      /\ \A s \in UrlSuffixes : Append(Last(k), s) \notin DOMAIN Escaped
  BY <1>1, <1>3 DEF NothingEscaped
<1>5. \A j \in 1..Len(k) : k[j] \notin DOMAIN Escaped
  <2>1. DOMAIN k = 1..Len(k)
    BY <1>2
  <2> HIDE DEF k
  <2> QED BY <1>4, <2>1 DEF ToSet
<1>6. link \in {path, WithSuffix(path, "das"), WithSuffix(path, "dds")}
  <2> DEFINE S == {path, WithSuffix(path, "das"), WithSuffix(path, "dds")}
  <2>1. ToSet(<<path, WithSuffix(path, "das"), WithSuffix(path, "dds")>>) = S
    <3> HIDE DEF path
    <3> QED BY ThreeOf
  <2> QED BY <2>1 DEF DatasetLinks
<1>7. Written(link) = link
  <2>1. "das" \in UrlSuffixes /\ "dds" \in UrlSuffixes
    BY DEF UrlSuffixes
  <2>2. /\ Written(path) = path
        /\ \A s \in UrlSuffixes : Written(WithSuffix(path, s)) = WithSuffix(path, s)
    <3> HIDE DEF k
    <3> QED BY <1>2, <1>4, <1>5, LinksWritten
  <2> HIDE DEF path
  <2> QED BY <1>6, <2>1, <2>2
<1>8. r \in DOMAIN answers
  <2> DEFINE n == Len(k) - 1
  <2>1. n \in Nat /\ n < Len(k) /\ n + 1 = Len(k)
    BY <1>2
  <2> HIDE DEF n
  <2>2. Browse(DataPath \o SubSeq(k, 1, n)) \in DOMAIN answers
    BY <1>1, <2>1, WholeWay
  <2>3. Browse(Written(link)) \in DOMAIN answers
    BY <1>1, <2>1, <2>2, LinksFollowed
  <2> QED BY <1>7, <2>3
<1>9. r.path = link /\ r.query = "none"
  BY DEF Browse
<1>10. \A s \in UrlSuffixes : WithSuffix(path, s) # path
  <2> SUFFICES ASSUME NEW s \in UrlSuffixes, WithSuffix(path, s) = path PROVE FALSE
    OBVIOUS
  <2>1. WithSuffix(k, s) \in Seq(Names) /\ ~Supported(Last(WithSuffix(k, s)))
        /\ DataPath \o WithSuffix(k, s) = DataPath \o k
    BY <1>2, SuffixedNames DEF Paths
  <2>2. WithSuffix(k, s) = k
    <3> HIDE DEF k
    <3> QED BY <1>2, <2>1, UnderDataPath
  <2> QED BY <1>2, <2>1, <2>2
<1>11. Proper(r, answers[r])
  BY <1>8 DEF SiteInv
<1> HIDE DEF r
<1>12. /\ answers[r].key = keys[i]
       /\ answers[r].status = IF link = path THEN RawStatus(keys[i]) ELSE 200
  <2>1. CASE link = path
    BY <1>9, <1>11, <2>1 DEF Proper
  <2>2. CASE link = WithSuffix(path, "das")
    <3>1. link # path
      BY <1>10, <2>2 DEF UrlSuffixes
    <3>2. answers[r].key = keys[i] /\ answers[r].status = 200
      BY <1>9, <1>11, <2>2 DEF Proper
    <3> QED BY <3>1, <3>2
  <2>3. CASE link = WithSuffix(path, "dds")
    <3>1. link # path
      BY <1>10, <2>3 DEF UrlSuffixes
    <3>2. answers[r].key = keys[i] /\ answers[r].status = 200
      BY <1>9, <1>11, <2>3 DEF Proper
    <3> QED BY <3>1, <3>2
  <2> QED BY <1>6, <2>1, <2>2, <2>3
<1> QED BY <1>7, <1>8, <1>12 DEF r

\* What the visitor was shown it has asked for, or will; and no filter lets a
\* page of the catalog pass that it has.
THEOREM VisitInvariant == Spec => []VisitInv
<1>1. Init => VisitInv
  BY InitVisit
<1>2. SiteInv /\ VisitInv /\ [Next]_vars => VisitInv'
  BY NextVisit
<1> QED BY <1>1, <1>2, SiteInvariant, PTL DEF Spec

\* Who starts at the front page and follows every link has met every dataset,
\* for every data directory and every depth of its folders, whatever is asked
\* in between.
THEOREM VisitReachesAll ==
  ASSUME NothingEscaped
  PROVE  Spec => []AllAvailable
<1>1. SiteInv /\ VisitInv => AllAvailable
  BY ReachesAll
<1> QED BY <1>1, SiteInvariant, VisitInvariant, PTL
=============================================================================
