----------------------------- MODULE DodsProofs -----------------------------
(***************************************************************************)
(* Proofs about Dds and Dods, for any file and any constraints: the parts  *)
(* of a response lie inside their variables, and a body has the length and *)
(* the prefixes that are announced before its data is read.                *)
(***************************************************************************)
EXTENDS Dods, SumsProofs

-----------------------------------------------------------------------------
(* Variables and names.                                                     *)

Extents == Seq(0..(Word - 1))

FileVariables == [name : Int, type : Types, dims : Seq(Int), shape : Extents]

LEMMA OnFile ==
  ASSUME NEW v \in Variables
  PROVE  \E i \in 1..Len(File) : v = File[i] /\ v.type # "Unimplemented"
BY FileAssumption DEF Variables, ToSet

LEMMA VariableTypes == Variables \subseteq FileVariables
<1> SUFFICES ASSUME NEW v \in Variables PROVE v \in FileVariables
  OBVIOUS
<1> DEFINE R == [name : Int, type : Types \cup {"Unimplemented"}, dims : Seq(Int),
                 shape : Extents]
<1>1. PICK i \in 1..Len(File) : v = File[i] /\ v.type # "Unimplemented"
  BY OnFile
<1>2. v \in R
  <2>1. File \in Seq(R)
    BY FileAssumption DEF Extents
  <2> HIDE DEF R
  <2> QED BY <1>1, <2>1
<1> QED BY <1>1, <1>2 DEF FileVariables

LEMMA ExtentType ==
  ASSUME NEW v \in Variables, NEW d \in 1..Len(v.shape)
  PROVE  v.shape[d] \in 0..(Word - 1) /\ v.shape[d] \in Nat
<1> DEFINE I == 0..(Word - 1)
<1>1. v.shape \in Seq(I)
  BY VariableTypes DEF FileVariables, Extents
<1>2. v.shape[d] \in I
  <2> HIDE DEF I
  <2> QED BY <1>1
<1> QED BY <1>2, WordAssumption

LEMMA NamesAreUnique ==
  ASSUME NEW v \in Variables, NEW w \in Variables, v.name = w.name
  PROVE  v = w
<1>1. PICK i \in 1..Len(File) : v = File[i]
  BY OnFile
<1>2. PICK j \in 1..Len(File) : w = File[j]
  BY OnFile
<1> QED BY <1>1, <1>2, FileAssumption

LEMMA VarOfName ==
  ASSUME NEW n, Has(n)
  PROVE  Var(n) \in Variables /\ Var(n).name = n
BY DEF Has, Var

LEMMA VarOfVariable ==
  ASSUME NEW v \in Variables
  PROVE  Has(v.name) /\ Var(v.name) = v
<1>1. Has(v.name)
  BY DEF Has
<1>2. Var(v.name) \in Variables /\ Var(v.name).name = v.name
  BY <1>1, VarOfName
<1> QED BY <1>1, <1>2, NamesAreUnique

\* A grid has one variable along each of its dimensions.
LEMMA GridMaps ==
  ASSUME NEW v \in Variables, IsGrid(v), NEW d \in 1..Len(v.dims)
  PROVE  /\ Len(v.dims) = Len(v.shape)
         /\ Has(v.dims[d]) /\ Var(v.dims[d]) \in Variables
         /\ Var(v.dims[d]).name = v.dims[d]
         /\ Var(v.dims[d]).shape = <<v.shape[d]>>
<1>1. PICK i \in 1..Len(File) : v = File[i]
  BY OnFile
<1>2. Has(v.dims[d])
  BY VariableTypes DEF IsGrid, ToSet, FileVariables
<1>3. Var(v.dims[d]) \in Variables /\ Var(v.dims[d]).name = v.dims[d]
  BY <1>2, VarOfName
<1>4. PICK j \in 1..Len(File) : Var(v.dims[d]) = File[j]
  BY <1>3, OnFile
<1>5. Len(File[i].dims) > 1 /\ d \in 1..Len(File[i].dims) /\ File[i].dims[d] = File[j].name
  BY <1>1, <1>3, <1>4 DEF IsGrid
<1>6. /\ Len(File[i].dims) = Len(File[i].shape)
      /\ File[j].shape = <<File[i].shape[d]>>
  BY <1>5, FileAssumption
<1> QED BY <1>1, <1>2, <1>3, <1>4, <1>6

-----------------------------------------------------------------------------
(* Parts.                                                                   *)

PartRecords ==
    [name : Int, type : Types, dims : Seq(Int \X Nat), size : Nat,
     indices : Seq(Nat), counts : Seq(Nat)]

\* The slab of the part lies inside its variable.
Inside(part) ==
    LET shape == Var(part.name).shape
    IN  /\ Len(part.indices) = Len(shape) /\ Len(part.counts) = Len(shape)
        /\ \A d \in 1..Len(shape) :
              part.counts[d] >= 0 /\ part.indices[d] + part.counts[d] <= shape[d]

GoodPart(part) ==
    /\ part.size = Wrap(Product(part.counts))
    /\ Inside(part)
    /\ WellLabelled => ShownSize(part) = Product(part.counts)

GoodParts == {part \in PartRecords : GoodPart(part)}

LEMMA WrapType ==
  ASSUME NEW n \in Int
  PROVE  Wrap(n) \in 0..(Word - 1) /\ (n \in 0..(Word - 1) => Wrap(n) = n)
BY WordAssumption DEF Wrap

LEMMA ProductType ==
  ASSUME NEW w \in Seq(Nat)
  PROVE  Product(w) \in Nat
<1>1. Len(w) \in 0..Len(w)
  OBVIOUS
<1> QED BY <1>1, ProductEquation DEF Product

LEMMA ProductOfOne ==
  ASSUME NEW n \in Nat
  PROVE  Product(<<n>>) = n
<1> DEFINE w == <<n>>
<1>1. w \in Seq(Nat) /\ Len(w) = 1 /\ w[1] = n /\ 1 \in 1..Len(w) /\ 1 - 1 = 0
  OBVIOUS
<1> HIDE DEF w
<1>2. ProductTo(w, 0) = 1 /\ ProductTo(w, 1) = ProductTo(w, 1 - 1) * w[1]
  BY <1>1, ProductEquation
<1>3. ProductTo(w, 1) = 1 * n
  BY <1>1, <1>2
<1>4. Product(w) = n
  BY <1>1, <1>3 DEF Product
<1> QED BY <1>4 DEF w

\* Counts and indices that lie inside a variable.
Fits(v, indices, counts) ==
    /\ indices \in [1..Len(v.shape) -> Nat] /\ counts \in [1..Len(v.shape) -> Nat]
    /\ \A d \in 1..Len(v.shape) : indices[d] + counts[d] <= v.shape[d]

LEMMA DetailsAreGood ==
  ASSUME NEW v \in Variables, NEW indices, NEW counts, Fits(v, indices, counts)
  PROVE  Details(v, indices, counts) \in GoodParts
<1> DEFINE part == Details(v, indices, counts)
           L == Len(v.shape)
<1>1. v \in FileVariables /\ L \in Nat /\ v.shape \in Extents /\ v.dims \in Seq(Int)
      /\ Len(v.dims) \in Nat
  BY VariableTypes DEF FileVariables, Extents
<1>2. /\ indices \in Seq(Nat) /\ Len(indices) = L
      /\ counts \in Seq(Nat) /\ Len(counts) = L
  <2>1. indices \in [1..L -> Nat] /\ counts \in [1..L -> Nat]
    BY DEF Fits
  <2> HIDE DEF L
  <2> QED BY <1>1, <2>1
<1>3. Product(counts) \in Nat /\ Wrap(Product(counts)) \in 0..(Word - 1)
  BY <1>2, ProductType, WrapType
<1> DEFINE M == ShorterOf(Len(v.dims), L)
<1>4. M \in Nat /\ M <= Len(v.dims) /\ M <= L /\ (Len(v.dims) >= L => M = L)
  BY <1>1 DEF ShorterOf
<1>5. /\ CountedDims(v, counts) = [d \in 1..M |-> <<v.dims[d], counts[d]>>]
      /\ CountedDims(v, counts) \in Seq(Int \X Nat) /\ Len(CountedDims(v, counts)) = M
  <2>1. CountedDims(v, counts) = [d \in 1..M |-> <<v.dims[d], counts[d]>>]
    BY <1>2 DEF CountedDims
  <2>2. \A d \in 1..M : <<v.dims[d], counts[d]>> \in Int \X Nat
    <3> SUFFICES ASSUME NEW d \in 1..M PROVE v.dims[d] \in Int /\ counts[d] \in Nat
      OBVIOUS
    <3>1. d \in 1..Len(v.dims) /\ d \in 1..L
      <4> HIDE DEF M, L
      <4> QED BY <1>1, <1>4
    <3> HIDE DEF M, L
    <3> QED BY <1>1, <1>2, <3>1
  <2>3. M \in Nat
    BY <1>4
  <2> HIDE DEF M
  <2>4. Len(CountedDims(v, counts)) = M
    BY <2>1, <2>3
  <2> QED BY <2>1, <2>2, <2>3, <2>4
<1>6. part \in PartRecords
  <2>1. v.name \in Int /\ v.type \in Types
    BY <1>1 DEF FileVariables
  <2>2. Wrap(Product(counts)) \in Nat
    BY <1>3, WordAssumption
  <2> QED BY <1>2, <1>5, <2>1, <2>2 DEF Details, PartRecords
<1>7. /\ part.name = v.name /\ part.size = Wrap(Product(counts)) /\ part.counts = counts
      /\ part.indices = indices /\ part.dims = CountedDims(v, counts)
  BY DEF Details
<1> HIDE DEF part
<1>8. Inside(part)
  <2>1. Var(part.name) = v
    BY <1>7, VarOfVariable
  <2>2. \A d \in 1..L : counts[d] >= 0 /\ indices[d] + counts[d] <= v.shape[d]
    BY DEF Fits
  <2> QED BY <1>2, <1>7, <2>1, <2>2 DEF Inside
<1>9. ASSUME WellLabelled PROVE ShownSize(part) = Product(counts)
  <2>1. M = L
    BY <1>1, <1>4, <1>9 DEF WellLabelled
  <2> HIDE DEF M, L
  <2>2. Len(part.dims) = L /\ \A d \in 1..L : part.dims[d][2] = counts[d]
    <3>1. part.dims = CountedDims(v, counts) /\ Len(CountedDims(v, counts)) = L
          /\ CountedDims(v, counts) = [d \in 1..L |-> <<v.dims[d], counts[d]>>]
      BY <1>5, <1>7, <2>1
    <3> QED BY <3>1
  <2>3. [d \in 1..Len(part.dims) |-> part.dims[d][2]] = counts
    BY <1>2, <2>2
  <2> QED BY <2>3 DEF ShownSize
<1> QED BY <1>6, <1>7, <1>8, <1>9 DEF GoodParts, GoodPart, part

LEMMA MapsAreGood ==
  ASSUME NEW v \in Variables, IsGrid(v), NEW indices, NEW counts, Fits(v, indices, counts),
         NEW d \in 1..ShorterOf(Len(v.dims), Len(counts))
  PROVE  MapDetails(v, indices, counts, d) \in GoodParts
<1> DEFINE part == MapDetails(v, indices, counts, d)
           c == counts[d]
           i == indices[d]
           map == Var(v.dims[d])
<1>1. /\ v \in FileVariables /\ v.shape \in Extents /\ Len(v.shape) \in Nat
      /\ v.dims \in Seq(Int) /\ Len(v.dims) \in Nat
  BY VariableTypes DEF FileVariables, Extents
<1>2. Len(counts) = Len(v.shape)
  BY <1>1 DEF Fits
<1>3. d \in 1..Len(v.dims) /\ d \in 1..Len(v.shape)
  BY <1>1, <1>2 DEF ShorterOf
<1>4. map \in Variables /\ map.name = v.dims[d] /\ map.shape = <<v.shape[d]>>
  BY <1>3, GridMaps
<1>5. /\ c \in Nat /\ i \in Nat /\ i + c <= v.shape[d] /\ v.shape[d] \in 0..(Word - 1)
      /\ v.dims[d] \in Int
  <2>1. c \in Nat /\ i \in Nat /\ i + c <= v.shape[d]
    BY <1>3 DEF Fits
  <2>2. v.shape[d] \in 0..(Word - 1)
    BY <1>3, ExtentType
  <2>3. v.dims[d] \in Int
    BY <1>1, <1>3
  <2> HIDE DEF c, i
  <2> QED BY <2>1, <2>2, <2>3
<1>6. map.type \in Types
  BY <1>4, VariableTypes DEF FileVariables
<1>7. part = [name |-> v.dims[d], type |-> map.type, dims |-> <<<<v.dims[d], c>>>>,
              size |-> c, indices |-> <<i>>, counts |-> <<c>>]
  BY DEF MapDetails
<1> HIDE DEF part, map, c, i
<1>8. part \in PartRecords
  BY <1>5, <1>6, <1>7 DEF PartRecords
<1>9. part.size = Wrap(Product(part.counts))
  <2>1. c \in 0..(Word - 1) /\ c \in Int
    BY <1>5, WordAssumption
  <2>2. Product(<<c>>) = c
    BY <1>5, ProductOfOne
  <2> QED BY <1>7, <2>1, <2>2, WrapType
<1>10. Inside(part)
  <2>1. Var(part.name).shape = <<v.shape[d]>>
    BY <1>4, <1>7 DEF map
  <2>2. part.indices = <<i>> /\ part.counts = <<c>>
    BY <1>7
  <2> QED BY <1>5, <2>1, <2>2 DEF Inside
<1>11. ShownSize(part) = Product(part.counts)
  <2>1. part.dims = <<<<v.dims[d], c>>>> /\ part.counts = <<c>>
    BY <1>7
  <2>2. [x \in 1..Len(part.dims) |-> part.dims[x][2]] = <<c>>
    BY <2>1
  <2> QED BY <2>1, <2>2 DEF ShownSize
<1> QED BY <1>8, <1>9, <1>10, <1>11 DEF GoodParts, GoodPart, part

LEMMA PartsAreGood ==
  ASSUME NEW v \in Variables, NEW indices, NEW counts, Fits(v, indices, counts)
  PROVE  Parts(v, indices, counts) \in Seq(GoodParts)
<1>1. Details(v, indices, counts) \in GoodParts
  BY DetailsAreGood
<1>2. CASE IsGrid(v)
  <2> DEFINE M == ShorterOf(Len(v.dims), Len(counts))
             maps == [d \in 1..M |-> MapDetails(v, indices, counts, d)]
  <2>1. M \in Nat
    BY VariableTypes DEF FileVariables, Extents, Fits, ShorterOf
  <2>2. \A d \in 1..M : MapDetails(v, indices, counts, d) \in GoodParts
    BY <1>2, MapsAreGood
  <2> HIDE DEF M
  <2>3. maps \in Seq(GoodParts)
    BY <2>1, <2>2
  <2>4. Parts(v, indices, counts) = <<Details(v, indices, counts)>> \o maps
    BY <1>2 DEF Parts, M
  <2> HIDE DEF maps
  <2> QED BY <1>1, <2>3, <2>4
<1>3. CASE ~IsGrid(v)
  <2>1. Parts(v, indices, counts) = <<Details(v, indices, counts)>> \o <<>>
    BY <1>3 DEF Parts
  <2> QED BY <1>1, <2>1
<1> QED BY <1>2, <1>3

-----------------------------------------------------------------------------
(* Slabs.                                                                   *)

\* What ConstraintsAssumption says of an item.
WellFormed(slab) ==
    slab # <<>> =>
        /\ Len(slab[1]) \in Nat
        /\ \A d \in 1..Len(slab[1]) : slab[1][d] \in Seq(Nat) /\ Len(slab[1][d]) \in 1..3

\* An accepted slab lies inside the variable (dds.rs:161-223).
LEMMA AcceptedFits ==
  ASSUME NEW v \in Variables, NEW slab, WellFormed(slab), SlabAccepted(v, slab)
  PROVE  Fits(v, Indices(v, slab), Counts(v, slab))
<1>1. v.shape \in Extents /\ Len(v.shape) \in Nat
  BY VariableTypes DEF FileVariables, Extents
<1>2. ASSUME NEW d \in 1..Len(v.shape)
      PROVE  /\ Index(slab, d) \in Nat
             /\ Counts(v, slab)[d] \in Nat
             /\ Index(slab, d) + Counts(v, slab)[d] <= v.shape[d]
  <2>1. v.shape[d] \in Nat
    BY <1>1, WordAssumption DEF Extents
  <2>2. CASE Given(slab, d)
    <3>1. slab # <<>> /\ d \in 1..Len(slab[1])
      BY <2>2 DEF Given, WellFormed
    <3> DEFINE slice == slab[1][d]
    <3>2. slice \in Seq(Nat) /\ (Len(slice) = 1 \/ Len(slice) = 2)
      <4>1. Len(slice) < 3
        BY <3>1 DEF SlabAccepted
      <4>2. slice \in Seq(Nat) /\ Len(slice) \in 1..3
        BY <3>1 DEF WellFormed
      <4> HIDE DEF slice
      <4>3. Len(slice) = 1 \/ Len(slice) = 2
        <5>1. \A n \in 1..3 : n < 3 => n = 1 \/ n = 2
          OBVIOUS
        <5> QED BY <4>1, <4>2, <5>1
      <4> QED BY <4>2, <4>3
    <3>3. Index(slab, d) = slice[1] /\ Counts(v, slab)[d] = CountSlab(slice)
      BY <2>2 DEF Index, Counts
    <3>4. Index(slab, d) < v.shape[d] /\ CountSlab(slice) <= v.shape[d] - Index(slab, d)
      BY <3>1 DEF SlabAccepted
    <3> HIDE DEF slice
    <3>5. slice[1] \in Nat
      BY <3>2
    <3>6. CountSlab(slice) \in Nat
      <4>1. CASE Len(slice) = 1
        BY <4>1 DEF CountSlab
      <4>2. CASE Len(slice) = 2
        <5>1. slice[2] \in Nat
          BY <3>2, <4>2
        <5>2. slice[2] - slice[1] + 1 \in Int
          BY <3>5, <5>1
        <5>3. Wrap(slice[2] - slice[1] + 1) \in Nat
          BY <5>2, WrapType, WordAssumption
        <5> QED BY <4>2, <5>3 DEF CountSlab
      <4> QED BY <3>2, <4>1, <4>2
    <3> QED BY <2>1, <3>3, <3>4, <3>5, <3>6
  <2>3. CASE ~Given(slab, d)
    <3>1. Index(slab, d) = 0 /\ Counts(v, slab)[d] = v.shape[d] - 0
      BY <2>3 DEF Index, Counts
    <3> QED BY <2>1, <3>1
  <2> QED BY <2>2, <2>3
<1>3. Indices(v, slab) \in [1..Len(v.shape) -> Nat]
  BY <1>2 DEF Indices
<1>4. Counts(v, slab) \in [1..Len(v.shape) -> Nat]
  <2>1. Counts(v, slab) = [d \in 1..Len(v.shape) |-> Counts(v, slab)[d]]
    BY DEF Counts
  <2>2. \A d \in 1..Len(v.shape) : Counts(v, slab)[d] \in Nat
    BY <1>2
  <2> QED BY <2>1, <2>2
<1>5. \A d \in 1..Len(v.shape) :
         Indices(v, slab)[d] + Counts(v, slab)[d] <= v.shape[d]
  BY <1>2 DEF Indices
<1> QED BY <1>3, <1>4, <1>5 DEF Fits

-----------------------------------------------------------------------------
(* Responses.                                                               *)

Entries == [key : {v.name : v \in Variables}, grid : BOOLEAN, parts : Seq(GoodParts)]

LEMMA WholeIsGood ==
  ASSUME NEW v \in Variables
  PROVE  Whole(v) \in GoodParts
<1>1. v.shape \in Extents /\ Len(v.shape) \in Nat
  BY VariableTypes DEF FileVariables, Extents
<1>2. \A d \in 1..Len(v.shape) : v.shape[d] \in Nat
  BY <1>1, WordAssumption DEF Extents
<1>3. v.shape \in [1..Len(v.shape) -> Nat]
  BY <1>1, <1>2 DEF Extents
<1>4. Fits(v, [d \in 1..Len(v.shape) |-> 0], v.shape)
  BY <1>2, <1>3 DEF Fits
<1> QED BY <1>4, DetailsAreGood DEF Whole

\* The names in their order.
LEMMA NamesInOrder ==
  /\ Len(SortedNames) \in Nat /\ SortedNames \in Seq({v.name : v \in Variables})
  /\ \A v \in Variables : \E p \in 1..Len(SortedNames) : SortedNames[p] = v.name
  /\ \A p, q \in 1..Len(SortedNames) : SortedNames[p] <= SortedNames[q] => p <= q
<1> DEFINE names == {v.name : v \in Variables}
           B == [n \in names |-> {j \in names : j <= n}]
           N == Cardinality(names)
<1>1. names \subseteq Int
  BY VariableTypes DEF FileVariables
<1>2. IsFiniteSet(names)
  <2> DEFINE place == [i \in 1..Len(File) |-> File[i].name]
             all == {File[i].name : i \in 1..Len(File)}
  <2>1. Len(File) \in Nat
    BY FileAssumption
  <2>2. IsFiniteSet(1..Len(File))
    BY <2>1, FS_Interval
  <2>3. place \in Surjection(1..Len(File), all)
    BY DEF Surjection
  <2>4. IsFiniteSet(all)
    <3> HIDE DEF place, all
    <3> QED BY <2>2, <2>3, FS_Surjection
  <2>5. names \in SUBSET all
    BY OnFile
  <2> HIDE DEF names, all
  <2> QED BY <2>4, <2>5, FS_Subset
<1>3. /\ B \in [names -> SUBSET names]
      /\ \A x \in names : x \in B[x]
      /\ \A x, y \in names : x \in B[y] \/ y \in B[x]
      /\ \A x, y \in names : x \in B[y] => B[x] \subseteq B[y]
      /\ \A x, y \in names : x \in B[y] /\ y \in B[x] => x = y
  <2> HIDE DEF names
  <2>1. B \in [names -> SUBSET names]
    OBVIOUS
  <2>2. \A x, y \in names : x \in Int /\ y \in Int /\ (x \in B[y] <=> x <= y)
    BY <1>1
  <2>3. ASSUME NEW x \in names, NEW y \in names, x \in B[y] PROVE B[x] \subseteq B[y]
    <3> SUFFICES ASSUME NEW z \in B[x] PROVE z \in B[y]
      OBVIOUS
    <3>1. z \in names
      BY <2>1
    <3> HIDE DEF B
    <3> QED BY <2>2, <2>3, <3>1
  <2> HIDE DEF B
  <2>4. \A x, y \in names : x \in B[y] \/ y \in B[x]
    BY <2>2
  <2>5. \A x, y \in names : x \in B[y] /\ y \in B[x] => x = y
    BY <2>2
  <2> QED BY <2>1, <2>2, <2>3, <2>4, <2>5
<1>4. \A x, y \in names : x \in B[y] <=> x <= y
  <2> HIDE DEF names
  <2> QED OBVIOUS
<1>5. /\ N \in Nat
      /\ \A x \in names : Cardinality(B[x]) \in 1..N
      /\ \A p \in 1..N : \E x \in names : Cardinality(B[x]) = p
      /\ \A x, y \in names : Cardinality(B[x]) <= Cardinality(B[y]) <=> x \in B[y]
  <2> HIDE DEF names, B
  <2> QED BY <1>2, <1>3, Ranks
<1>6. \A x \in names : B[x] = {j \in names : j <= x}
  OBVIOUS
<1>7. SortedNames = [p \in 1..N |-> CHOOSE n \in names : Cardinality({j \in names : j <= n}) = p]
  BY DEF SortedNames
<1> HIDE DEF B, names, N
<1>8. Len(SortedNames) = N
  BY <1>5, <1>7
<1>9. ASSUME NEW p \in 1..N
      PROVE  SortedNames[p] \in names /\ Cardinality(B[SortedNames[p]]) = p
  <2>1. \E x \in names : Cardinality({j \in names : j <= x}) = p
    BY <1>5, <1>6
  <2>2. SortedNames[p] \in names
        /\ Cardinality({j \in names : j <= SortedNames[p]}) = p
    BY <1>7, <2>1
  <2> QED BY <1>6, <2>2
<1>10. SortedNames \in Seq(names)
  <2> DEFINE pick(p) == CHOOSE n \in names : Cardinality({j \in names : j <= n}) = p
  <2>1. SortedNames = [p \in 1..N |-> SortedNames[p]]
    <3>1. SortedNames = [p \in 1..N |-> pick(p)]
      BY <1>7
    <3> HIDE DEF pick
    <3> QED BY <3>1
  <2>2. N \in Nat /\ \A p \in 1..N : SortedNames[p] \in names
    BY <1>5, <1>9
  <2> QED BY <2>1, <2>2
<1>11. ASSUME NEW n \in names PROVE \E p \in 1..N : SortedNames[p] = n
  <2>1. Cardinality(B[n]) \in 1..N
    BY <1>5
  <2> DEFINE p == Cardinality(B[n])
  <2>2. SortedNames[p] \in names /\ Cardinality(B[SortedNames[p]]) = Cardinality(B[n])
    BY <1>9, <2>1
  <2>3. SortedNames[p] \in B[n] /\ n \in B[SortedNames[p]]
    BY <1>5, <2>1, <2>2
  <2>4. SortedNames[p] = n
    BY <1>3, <2>2, <2>3
  <2> QED BY <2>1, <2>4
<1>12. ASSUME NEW p \in 1..N, NEW q \in 1..N, SortedNames[p] <= SortedNames[q] PROVE p <= q
  BY <1>4, <1>5, <1>9, <1>12
<1> QED BY <1>5, <1>8, <1>10, <1>11, <1>12 DEF names

LEMMA AllEntries == All \in Seq(Entries) /\ Len(All) = Len(SortedNames)
<1> DEFINE names == {v.name : v \in Variables}
           N == Len(SortedNames)
           entry(p) ==
             LET v == Var(SortedNames[p])
             IN  [key |-> v.name, grid |-> IsGrid(v),
                  parts |-> <<Whole(v)>> \o IF IsGrid(v)
                                            THEN [j \in 1..Len(v.dims) |-> Whole(Var(v.dims[j]))]
                                            ELSE <<>>]
<1>1. N \in Nat /\ SortedNames \in Seq(names)
  BY NamesInOrder
<1>2. All = [p \in 1..N |-> entry(p)]
  BY DEF All
<1>3. ASSUME NEW p \in 1..N PROVE entry(p) \in Entries
  <2> DEFINE v == Var(SortedNames[p])
             maps == [j \in 1..Len(v.dims) |-> Whole(Var(v.dims[j]))]
  <2>1. v \in Variables
    <3>1. SortedNames[p] \in names
      <4> HIDE DEF names
      <4> QED BY <1>1
    <3> QED BY <3>1, VarOfVariable
  <2> HIDE DEF v
  <2>2. v.name \in names /\ IsGrid(v) \in BOOLEAN /\ Whole(v) \in GoodParts
    BY <2>1, WholeIsGood DEF IsGrid
  <2>3. ASSUME IsGrid(v) PROVE maps \in Seq(GoodParts)
    <3>1. Len(v.dims) \in Nat
      BY <2>1, VariableTypes DEF FileVariables
    <3>2. \A j \in 1..Len(v.dims) : Whole(Var(v.dims[j])) \in GoodParts
      BY <2>1, <2>3, GridMaps, WholeIsGood
    <3> QED BY <3>1, <3>2
  <2> DEFINE rest == IF IsGrid(v) THEN maps ELSE <<>>
  <2>4. rest \in Seq(GoodParts)
    BY <2>3
  <2>5. entry(p) = [key |-> v.name, grid |-> IsGrid(v), parts |-> <<Whole(v)>> \o rest]
    BY DEF v
  <2> HIDE DEF entry, rest, maps
  <2>6. <<Whole(v)>> \o rest \in Seq(GoodParts)
    BY <2>2, <2>4
  <2> QED BY <2>2, <2>5, <2>6 DEF Entries
<1> HIDE DEF entry, N
<1>4. All \in Seq(Entries) /\ Len(All) = N
  BY <1>1, <1>2, <1>3
<1> QED BY <1>4 DEF N

LEMMA PositionType ==
  ASSUME NEW v \in Variables
  PROVE  Position(v.name) \in Nat
<1>1. PICK i \in 1..Len(File) : v = File[i]
  BY OnFile
<1>2. Position(v.name) \in 1..Len(File)
  BY <1>1 DEF Position
<1> QED BY <1>2, FileAssumption

\* The sort keeps what it sorts, in the order of the positions.
LEMMA SortedEntries ==
  ASSUME NEW resolved \in Seq(Entries)
  PROVE  /\ SortByPosition(resolved) \in Seq(Entries)
         /\ Len(SortByPosition(resolved)) = Len(resolved)
         /\ \A p, q \in 1..Len(resolved) : p < q =>
               Position(SortByPosition(resolved)[p].key)
                 <= Position(SortByPosition(resolved)[q].key)
<1> DEFINE N == Len(resolved)
           at(j) == Position(resolved[j].key)
           before(j, m) == Precedes(resolved, j, m)
           B == [m \in 1..N |-> {j \in 1..N : before(j, m)}]
           pick(p) == OfRank(resolved, p)
           sorted == SortByPosition(resolved)
<1>1. N \in Nat /\ \A j \in 1..N : resolved[j] \in Entries
  OBVIOUS
<1>2. ASSUME NEW j \in 1..N PROVE at(j) \in Nat
  <2>1. resolved[j].key \in {v.name : v \in Variables}
    BY <1>1 DEF Entries
  <2>2. PICK v \in Variables : v.name = resolved[j].key
    BY <2>1
  <2> QED BY <2>2, PositionType
<1>3. sorted = [p \in 1..N |-> resolved[pick(p)]]
  BY DEF SortByPosition
<1>0. \A j, m \in 1..N : before(j, m) <=> (at(j) < at(m) \/ (at(j) = at(m) /\ j <= m))
  BY DEF Precedes
<1> HIDE DEF at, sorted, before
<1>4. \A x, y \in 1..N : x \in B[y] <=> before(x, y)
  OBVIOUS
<1>5. /\ B \in [1..N -> SUBSET (1..N)]
      /\ \A x \in 1..N : x \in B[x]
      /\ \A x, y \in 1..N : x \in B[y] \/ y \in B[x]
      /\ \A x, y \in 1..N : x \in B[y] => B[x] \subseteq B[y]
      /\ \A x, y \in 1..N : x \in B[y] /\ y \in B[x] => x = y
  <2>1. B \in [1..N -> SUBSET (1..N)]
    OBVIOUS
  <2> HIDE DEF B, N
  <2>2. \A x \in 1..N : before(x, x)
    BY <1>1, <1>2, <1>0
  <2>3. \A x, y \in 1..N : before(x, y) \/ before(y, x)
    BY <1>1, <1>2, <1>0
  <2>4. \A x, y, z \in 1..N : before(x, y) /\ before(y, z) => before(x, z)
    BY <1>1, <1>2, <1>0
  <2>5. \A x, y \in 1..N : before(x, y) /\ before(y, x) => x = y
    BY <1>1, <1>2, <1>0
  <2>6. ASSUME NEW x \in 1..N, NEW y \in 1..N, x \in B[y] PROVE B[x] \subseteq B[y]
    <3> SUFFICES ASSUME NEW z \in B[x] PROVE z \in B[y]
      OBVIOUS
    <3>1. z \in 1..N
      BY <2>1
    <3> QED BY <1>4, <2>4, <2>6, <3>1
  <2>7. \A x \in 1..N : x \in B[x]
    BY <1>4, <2>2
  <2>8. \A x, y \in 1..N : x \in B[y] \/ y \in B[x]
    BY <1>4, <2>3
  <2>9. \A x, y \in 1..N : x \in B[y] /\ y \in B[x] => x = y
    BY <1>4, <2>5
  <2> QED BY <2>1, <2>6, <2>7, <2>8, <2>9
<1>6. IsFiniteSet(1..N) /\ Cardinality(1..N) = N
  <2>1. 1 \in Int /\ N \in Int /\ (IF 1 <= N THEN N - 1 + 1 ELSE 0) = N
    <3> HIDE DEF N
    <3> QED BY <1>1
  <2> HIDE DEF N
  <2>2. IsFiniteSet(1..N) /\ Cardinality(1..N) = IF 1 <= N THEN N - 1 + 1 ELSE 0
    BY <2>1, FS_Interval
  <2> QED BY <2>1, <2>2
<1>7. /\ \A p \in 1..N : \E x \in 1..N : Cardinality(B[x]) = p
      /\ \A x, y \in 1..N : Cardinality(B[x]) <= Cardinality(B[y]) <=> x \in B[y]
  <2> DEFINE S == 1..N
  <2>1. B \in [S -> SUBSET S] /\ IsFiniteSet(S) /\ Cardinality(S) = N
    BY <1>5, <1>6
  <2>2. /\ \A x \in S : x \in B[x]
        /\ \A x, y \in S : x \in B[y] \/ y \in B[x]
        /\ \A x, y \in S : x \in B[y] => B[x] \subseteq B[y]
        /\ \A x, y \in S : x \in B[y] /\ y \in B[x] => x = y
    BY <1>5
  <2>3. /\ \A p \in 1..Cardinality(S) : \E x \in S : Cardinality(B[x]) = p
        /\ \A x, y \in S : Cardinality(B[x]) <= Cardinality(B[y]) <=> x \in B[y]
    <3> HIDE DEF B, S
    <3> QED BY <2>1, <2>2, Ranks
  <2> HIDE DEF B
  <2> QED BY <2>1, <2>3
<1>8. \A x \in 1..N : B[x] = {j \in 1..N : before(j, x)}
  OBVIOUS
<1>9. ASSUME NEW p \in 1..N
      PROVE  pick(p) \in 1..N /\ Cardinality(B[pick(p)]) = p
  <2> HIDE DEF B, before, N
  <2>1. \E x \in 1..N : Cardinality({j \in 1..N : before(j, x)}) = p
    BY <1>7, <1>8
  <2>2. pick(p) \in 1..N /\ Cardinality({j \in 1..N : before(j, pick(p))}) = p
    BY <2>1 DEF OfRank, N, before
  <2> HIDE DEF pick
  <2> QED BY <1>8, <2>2
<1>10. ASSUME NEW p \in 1..N, NEW q \in 1..N, p < q
       PROVE  at(pick(p)) <= at(pick(q))
  <2>1. pick(p) \in 1..N /\ pick(q) \in 1..N
        /\ Cardinality(B[pick(p)]) = p /\ Cardinality(B[pick(q)]) = q
    BY <1>9
  <2>2. p \in Nat /\ q \in Nat
    BY <1>1
  <2> HIDE DEF pick, B, before, N
  <2>3. pick(p) \in B[pick(q)]
    <3>1. Cardinality(B[pick(p)]) <= Cardinality(B[pick(q)])
      BY <1>10, <2>1, <2>2
    <3>2. Cardinality(B[pick(p)]) <= Cardinality(B[pick(q)]) <=> pick(p) \in B[pick(q)]
      BY <1>7, <2>1
    <3> QED BY <3>1, <3>2
  <2>4. before(pick(p), pick(q))
    BY <1>4, <2>1, <2>3
  <2>5. at(pick(p)) \in Nat /\ at(pick(q)) \in Nat
    BY <1>2, <2>1
  <2> QED BY <1>0, <2>1, <2>4, <2>5
<1>11. sorted \in Seq(Entries) /\ Len(sorted) = N
  <2>1. Len(sorted) = N
    BY <1>1, <1>3
  <2>2. \A p \in 1..N : resolved[pick(p)] \in Entries
    BY <1>1, <1>9
  <2> HIDE DEF pick, N
  <2>3. sorted \in Seq(Entries)
    BY <1>1, <1>3, <2>2
  <2> QED BY <2>1, <2>3
<1>12. ASSUME NEW p \in 1..N, NEW q \in 1..N, p < q
       PROVE  Position(sorted[p].key) <= Position(sorted[q].key)
  <2>1. sorted[p] = resolved[pick(p)] /\ sorted[q] = resolved[pick(q)]
    <3> HIDE DEF pick
    <3> QED BY <1>3
  <2> HIDE DEF pick
  <2> QED BY <1>10, <1>12, <2>1 DEF at
<1> QED BY <1>11, <1>12 DEF sorted

LEMMA ResolvedEntry ==
  ASSUME NEW item, item.struct \in BOOLEAN, WellFormed(item.slab), ItemAccepted(item)
  PROVE  Resolve(item) \in Entries
<1> DEFINE v == Var(item.name)
           indices == Indices(v, item.slab)
           counts == Counts(v, item.slab)
<1>1. v \in Variables /\ SlabAccepted(v, item.slab)
  BY VarOfName DEF ItemAccepted
<1>2. Fits(v, indices, counts)
  BY <1>1, AcceptedFits
<1>3. Resolve(item) = IF item.struct
        THEN [key |-> item.outer, grid |-> FALSE, parts |-> <<Details(v, indices, counts)>>]
        ELSE [key |-> v.name, grid |-> IsGrid(v), parts |-> Parts(v, indices, counts)]
  BY DEF Resolve
<1> HIDE DEF v, indices, counts
<1>4. CASE item.struct
  <2>1. item.outer \in {w.name : w \in Variables}
    BY <1>4 DEF ItemAccepted, Has
  <2>2. <<Details(v, indices, counts)>> \in Seq(GoodParts)
    BY <1>1, <1>2, DetailsAreGood
  <2> QED BY <1>3, <1>4, <2>1, <2>2 DEF Entries
<1>5. CASE ~item.struct
  <2>1. v.name \in {w.name : w \in Variables} /\ IsGrid(v) \in BOOLEAN
    BY <1>1 DEF IsGrid
  <2>2. Parts(v, indices, counts) \in Seq(GoodParts)
    BY <1>1, <1>2, PartsAreGood
  <2> QED BY <1>3, <1>5, <2>1, <2>2 DEF Entries
<1> QED BY <1>4, <1>5

\* Every part of a response is good.
LEMMA ResponseIsGood ==
  ASSUME NEW c \in Constraints, DdsAccepted(c)
  PROVE  Response(c) \in Seq(Entries) /\ AllParts(Response(c)) \in Seq(GoodParts)
<1>1. Response(c) \in Seq(Entries)
  <2>1. CASE c = <<>>
    BY <2>1, AllEntries DEF Response
  <2>2. CASE c # <<>>
    <3> DEFINE resolved == [i \in 1..Len(c) |-> Resolve(c[i])]
    <3>1. Len(c) \in Nat
      BY ConstraintsAssumption
    <3>2. ASSUME NEW i \in 1..Len(c) PROVE Resolve(c[i]) \in Entries
      <4>1. c[i].struct \in BOOLEAN /\ WellFormed(c[i].slab)
        BY ConstraintsAssumption DEF WellFormed
      <4>2. ItemAccepted(c[i])
        BY DEF DdsAccepted
      <4> QED BY <4>1, <4>2, ResolvedEntry
    <3>3. resolved \in Seq(Entries)
      BY <3>1, <3>2
    <3>4. Response(c) = SortByPosition(resolved)
      BY <2>2 DEF Response
    <3> HIDE DEF resolved
    <3> QED BY <3>3, <3>4, SortedEntries
  <2> QED BY <2>1, <2>2
<1> DEFINE r == Response(c)
           ss == [i \in 1..Len(r) |-> r[i].parts]
<1>2. r \in Seq(Entries) /\ Len(r) \in Nat
  BY <1>1
<1> HIDE DEF r
<1>3. ASSUME NEW i \in 1..Len(r) PROVE r[i].parts \in Seq(GoodParts)
  <2>1. r[i] \in Entries
    BY <1>2
  <2> QED BY <2>1 DEF Entries
<1>4. ss \in Seq(Seq(GoodParts))
  BY <1>2, <1>3
<1>5. AllParts(r) = FlattenSeq(ss)
  BY DEF AllParts
<1> HIDE DEF ss
<1>6. AllParts(r) \in Seq(GoodParts)
  BY <1>4, <1>5, Flattened
<1> QED BY <1>1, <1>6 DEF r

-----------------------------------------------------------------------------
(* Lengths.                                                                 *)

LEMMA PartFacts ==
  ASSUME NEW part \in GoodParts
  PROVE  /\ StreamedSize(part.type) \in Nat /\ StreamedSize(part.type) = XdrSize(part.type)
         /\ Product(part.counts) \in Nat
         /\ PartBytes(part) \in Nat /\ PartLength(part) \in Nat
         /\ DodsSize(part) = Wrap(PartLength(part)) \/ ~(Product(part.counts) < Word)
         /\ DodsSize(part) \in Nat
         /\ Announced(part) \in 0..(Word32 - 1)
<1>1. part \in PartRecords /\ part.size = Wrap(Product(part.counts))
  BY DEF GoodParts, GoodPart
<1>2. part.type \in Types /\ part.counts \in Seq(Nat) /\ part.size \in Nat
  BY <1>1 DEF PartRecords
<1>3. /\ StreamedSize(part.type) \in Nat /\ XdrSize(part.type) \in Nat
      /\ StreamedSize(part.type) = XdrSize(part.type)
  BY <1>2 DEF Types, StreamedSize, XdrSize, Size
<1>4. Product(part.counts) \in Nat
  BY <1>2, ProductType
<1> DEFINE size == StreamedSize(part.type)
           n == Product(part.counts)
<1>5. size \in Nat /\ n \in Nat /\ part.size * size \in Nat /\ size * n \in Nat
      /\ size * n = n * size
  <2> HIDE DEF size, n
  <2>1. size \in Nat /\ n \in Nat
    BY <1>3, <1>4 DEF size, n
  <2> QED BY <1>2, <2>1
<1>6. PartBytes(part) = size * n
  BY DEF PartBytes
<1>7. PartBytes(part) \in Nat
  BY <1>5, <1>6
<1>8. PartLength(part) \in Nat
  BY <1>7 DEF PartLength, PrefixLen
<1>9. DodsSize(part) = Wrap(Wrap(part.size * size) + (IF IsScalar(part) THEN 0 ELSE 8))
  BY <1>3 DEF DodsSize
<1>10. DodsSize(part) \in Nat
  <2>1. Wrap(part.size * size) \in 0..(Word - 1)
    BY <1>5, WrapType
  <2>2. Wrap(part.size * size) + (IF IsScalar(part) THEN 0 ELSE 8) \in Int
    BY <2>1
  <2>3. DodsSize(part) \in 0..(Word - 1)
    BY <1>9, <2>2, WrapType
  <2> QED BY <2>3
<1>11. ASSUME n < Word PROVE DodsSize(part) = Wrap(PartLength(part))
  <2>1. part.size = n
    <3>1. n \in 0..(Word - 1) /\ n \in Int
      BY <1>5, <1>11, WordAssumption
    <3> QED BY <1>1, <3>1, WrapType
  <2>2. Wrap(part.size * size) = Wrap(PartBytes(part))
    BY <1>5, <1>6, <2>1
  <2> DEFINE b == PartBytes(part)
             e == IF IsScalar(part) THEN 0 ELSE 8
  <2>3. b \in Nat /\ e \in Nat /\ PartLength(part) = b + e
    BY <1>7 DEF PartLength, PrefixLen
  <2> HIDE DEF b, e
  <2>4. ((b % Word) + e) % Word = (b + e) % Word
    <3>1. Word \in Nat \ {0} /\ b \in Int /\ e \in Int
      BY <2>3, WordAssumption
    <3> QED BY <3>1, WrapOnce
  <2> QED BY <1>9, <2>2, <2>3, <2>4 DEF Wrap, b, e
<1>12. Announced(part) \in 0..(Word32 - 1)
  BY <1>2, LengthsAssumption DEF Announced
<1> QED BY <1>3, <1>4, <1>7, <1>8, <1>10, <1>11, <1>12

\* The length of a body up to a part is the length up to the one before and that
\* of the part.
LEMMA BodyLengths ==
  ASSUME NEW parts \in Seq(GoodParts)
  PROVE  /\ Lengths(parts) \in Seq(Nat) /\ Len(Lengths(parts)) = Len(parts)
         /\ LengthTo(parts, 0) = HeaderLen + SeparatorLen
         /\ \A n \in 0..Len(parts) : LengthTo(parts, n) \in Nat
         /\ \A n \in 1..Len(parts) :
               LengthTo(parts, n) = LengthTo(parts, n - 1) + PartLength(parts[n])
<1> DEFINE L == Len(parts)
           w == Lengths(parts)
<1>1. L \in Nat /\ \A n \in 1..L : parts[n] \in GoodParts
  OBVIOUS
<1>2. \A n \in 1..L : PartLength(parts[n]) \in Nat
  BY <1>1, PartFacts
<1>3. w = [n \in 1..L |-> PartLength(parts[n])]
  BY DEF Lengths
<1>4. w \in Seq(Nat) /\ Len(w) = L /\ \A n \in 1..L : w[n] = PartLength(parts[n])
  <2> HIDE DEF L, w
  <2>1. Len(w) = L
    BY <1>1, <1>3
  <2>2. w \in Seq(Nat)
    BY <1>1, <1>2, <1>3
  <2> QED BY <1>3, <2>1, <2>2
<1>5. /\ SumTo(w, 0) = 0
      /\ \A n \in 1..L : SumTo(w, n) = SumTo(w, n - 1) + w[n]
      /\ \A n \in 0..L : SumTo(w, n) \in Nat
  <2> HIDE DEF w
  <2> QED BY <1>4, SumEquation
<1>6. \A n : LengthTo(parts, n) = HeaderLen + SeparatorLen + SumTo(w, n)
  BY DEF LengthTo
<1> HIDE DEF w, L
<1>7. HeaderLen \in Nat /\ SeparatorLen \in Nat
  BY LengthsAssumption DEF SeparatorLen
<1>8. ASSUME NEW n \in 1..L
      PROVE  LengthTo(parts, n) = LengthTo(parts, n - 1) + PartLength(parts[n])
  <2> DEFINE a == SumTo(w, n - 1)
             b == PartLength(parts[n])
             h == HeaderLen + SeparatorLen
  <2>1. SumTo(w, n) = a + b
    BY <1>4, <1>5
  <2>2. n - 1 \in 0..L
    BY <1>1
  <2>3. a \in Nat /\ b \in Nat /\ h \in Nat
    BY <1>2, <1>5, <1>7, <2>2
  <2>4. LengthTo(parts, n) = h + (a + b) /\ LengthTo(parts, n - 1) = h + a
    BY <1>6, <2>1
  <2> HIDE DEF a, b, h
  <2>5. LengthTo(parts, n) = LengthTo(parts, n - 1) + b
    BY <2>3, <2>4
  <2> QED BY <2>5 DEF b
<1>9. LengthTo(parts, 0) = HeaderLen + SeparatorLen
  BY <1>5, <1>6, <1>7
<1>10. \A n \in 0..L : LengthTo(parts, n) \in Nat
  BY <1>5, <1>6, <1>7
<1> QED BY <1>4, <1>8, <1>9, <1>10 DEF w, L

\* The announced length is a usize.
LEMMA AnnouncedLengthType ==
  ASSUME NEW r, AllParts(r) \in Seq(GoodParts)
  PROVE  Wrap(ResponseSize(r) + HeaderLen + SeparatorLen) \in 0..(Word - 1)
<1> DEFINE parts == AllParts(r)
           L == Len(parts)
           w == [p \in 1..L |-> DodsSize(parts[p])]
<1>1. L \in Nat /\ \A p \in 1..L : DodsSize(parts[p]) \in Nat
  <2> HIDE DEF parts
  <2> QED BY PartFacts, SMTT(40) DEF parts
<1>2. w \in Seq(Nat)
  <2> HIDE DEF L
  <2> QED BY <1>1
<1>3. Sum(w) \in Nat
  <2> HIDE DEF w
  <2>1. Len(w) \in 0..Len(w)
    BY <1>2
  <2> QED BY <1>2, <2>1, SumEquation DEF Sum
<1>4. ResponseSize(r) = Wrap(Sum(w))
  BY DEF ResponseSize
<1> HIDE DEF w, parts
<1>5. ResponseSize(r) \in Int
  BY <1>3, <1>4, WrapType
<1>6. ResponseSize(r) + HeaderLen + SeparatorLen \in Int
  BY <1>5, LengthsAssumption DEF SeparatorLen
<1> QED BY <1>6, WrapType

\* A body that fits is announced with its length.
LEMMA AnnouncedLength ==
  ASSUME NEW r, AllParts(r) \in Seq(GoodParts), BodyLength(AllParts(r)) < Word
  PROVE  Wrap(ResponseSize(r) + HeaderLen + SeparatorLen) = BodyLength(AllParts(r))
<1> DEFINE parts == AllParts(r)
           L == Len(parts)
           w == Lengths(parts)
           h == HeaderLen + SeparatorLen
           total == SumTo(w, L)
<1>1. parts \in Seq(GoodParts) /\ L \in Nat /\ L \in 0..L
  OBVIOUS
<1>2. w \in Seq(Nat) /\ Len(w) = L
  <2> HIDE DEF parts
  <2> QED BY <1>1, BodyLengths
<1>3. h \in Nat /\ total \in Nat /\ h + total < Word
  <2>1. h \in Nat
    BY LengthsAssumption DEF SeparatorLen
  <2>2. total \in Nat
    <3> HIDE DEF w, L
    <3> QED BY <1>1, <1>2, SumEquation
  <2>3. h + total < Word
    BY DEF BodyLength, LengthTo
  <2> QED BY <2>1, <2>2, <2>3
<1>4. ASSUME NEW p \in 1..L PROVE DodsSize(parts[p]) = w[p]
  <2> HIDE DEF parts, total
  <2>1. parts[p] \in GoodParts
    BY <1>1
  <2>2. w[p] = PartLength(parts[p])
    BY DEF Lengths
  <2> DEFINE part == parts[p]
             size == StreamedSize(part.type)
             n == Product(part.counts)
  <2> HIDE DEF w, L, part
  <2>3. w[p] <= total
    <3>1. SumTo(w, p) = SumTo(w, p - 1) + w[p]
      BY <1>2, SumEquation
    <3>2. p - 1 \in 0..L /\ p \in 0..L /\ L \in p..L
      BY <1>1
    <3>3. SumTo(w, p - 1) \in Nat /\ SumTo(w, p) \in Nat
      BY <1>2, <3>2, SumEquation
    <3>4. SumTo(w, p) <= SumTo(w, L)
      BY <1>2, <3>2, SumsAscend
    <3>5. w[p] \in Nat
      BY <1>2
    <3>6. SumTo(w, L) = total
      BY DEF total
    <3> QED BY <1>3, <3>1, <3>3, <3>4, <3>5, <3>6
  <2>4. part \in GoodParts
    BY <2>1 DEF part
  <2>5. PartLength(part) \in Nat /\ PartBytes(part) \in Nat /\ PartBytes(part) = size * n
        /\ size \in Nat /\ n \in Nat
    BY <2>4, PartFacts DEF PartBytes
  <2>6. size >= 1
    <3>1. part.type \in Types
      BY <2>4 DEF GoodParts, PartRecords
    <3> QED BY <3>1 DEF Types, StreamedSize, Size
  <2>7. PartBytes(part) <= PartLength(part)
    BY <2>5 DEF PartLength, PrefixLen
  <2> HIDE DEF size, n, h
  <2>8. n <= size * n
    <3>1. size - 1 \in Nat
      BY <2>5, <2>6
    <3>2. (size - 1) * n \in Nat
      BY <2>5, <3>1
    <3>3. size * n = (size - 1) * n + n
      BY <2>5
    <3> QED BY <2>5, <3>2, <3>3
  <2>9. PartLength(part) < Word /\ n < Word
    BY <1>3, <2>2, <2>3, <2>5, <2>7, <2>8, WordAssumption DEF part
  <2>10. DodsSize(part) = Wrap(PartLength(part))
    BY <2>4, <2>9, PartFacts DEF n
  <2>11. PartLength(part) \in 0..(Word - 1) /\ PartLength(part) \in Int
    BY <2>5, <2>9, WordAssumption
  <2>12. DodsSize(part) = PartLength(part)
    BY <2>10, <2>11, WrapType
  <2> QED BY <2>2, <2>12 DEF part
<1>5. [p \in 1..L |-> DodsSize(parts[p])] = w
  <2>1. w = [p \in 1..L |-> w[p]]
    BY DEF Lengths
  <2> HIDE DEF w, parts
  <2> QED BY <1>4, <2>1
<1>6. ResponseSize(r) = Wrap(total)
  <2>1. ResponseSize(r) = Wrap(Sum([p \in 1..L |-> DodsSize(parts[p])]))
    BY DEF ResponseSize
  <2> HIDE DEF w, L, parts
  <2> QED BY <1>2, <1>5, <2>1 DEF Sum
<1>7. BodyLength(parts) = h + total
  BY DEF BodyLength, LengthTo
<1> HIDE DEF total, h, w, L
<1>8. total \in 0..(Word - 1) /\ total \in Int /\ h + total \in 0..(Word - 1)
      /\ h + total \in Int /\ total + h = h + total
  BY <1>3, WordAssumption
<1>9. Wrap(total) = total /\ Wrap(h + total) = h + total
  BY <1>8, WrapType
<1>10. ResponseSize(r) + HeaderLen + SeparatorLen = h + total
  BY <1>3, <1>6, <1>9, LengthsAssumption DEF h, SeparatorLen
<1> QED BY <1>7, <1>9, <1>10

-----------------------------------------------------------------------------
(* The invariant.                                                           *)

\* No handler has run: nothing of a body was sent, and nothing is announced.
LEMMA InitBody == Init => BodyInv
<1> SUFFICES ASSUME Init PROVE BodyInv
  OBVIOUS
<1>1. AllParts(<<>>) \in Seq(GoodParts)
  <2>1. <<>> \in Seq(Seq(GoodParts)) /\ [i \in 1..Len(<<>>) |-> <<>>[i].parts] = <<>>
    OBVIOUS
  <2>2. AllParts(<<>>) = FlattenSeq(<<>>)
    BY <2>1 DEF AllParts
  <2> QED BY <2>1, <2>2, Flattened
<1>2. Len(AllParts(response)) \in Nat
  BY <1>1 DEF Init
<1>3. 1 \in 1..(Len(AllParts(response)) + 1)
  BY <1>2
<1>4. -1 \in -1..(Word32 - 1)
  BY LengthsAssumption
<1> QED BY <1>3, <1>4 DEF Init, BodyInv, Answering, SentSoFar

\* What a response has sent so far, when it has parts left.
LEMMA BodyNow ==
  ASSUME BodyInv
  PROVE  /\ AllParts(response) \in Seq(GoodParts) /\ Len(AllParts(response)) \in Nat
         /\ PartsLeft => /\ k \in 1..Len(AllParts(response)) /\ Part \in GoodParts
                         /\ PartBytes(Part) \in Nat /\ PartLength(Part) \in Nat
                         /\ Announced(Part) \in 0..(Word32 - 1)
                         /\ LengthTo(AllParts(response), k - 1) \in Nat
                         /\ LengthTo(AllParts(response), k)
                              = LengthTo(AllParts(response), k - 1) + PartLength(Part)
<1>1. AllParts(response) \in Seq(GoodParts)
  <2>1. CASE Answering
    BY <2>1, ResponseIsGood DEF BodyInv
  <2>2. CASE ~Answering
    <3>1. response = <<>>
      BY <2>2 DEF BodyInv
    <3>2. <<>> \in Seq(Seq(GoodParts)) /\ [i \in 1..Len(<<>>) |-> <<>>[i].parts] = <<>>
      OBVIOUS
    <3>3. AllParts(<<>>) = FlattenSeq(<<>>)
      BY <3>2 DEF AllParts
    <3> QED BY <3>1, <3>2, <3>3, Flattened
  <2> QED BY <2>1, <2>2
<1>2. Len(AllParts(response)) \in Nat
  BY <1>1
<1>3. ASSUME PartsLeft PROVE k \in 1..Len(AllParts(response))
  <2> DEFINE L == Len(AllParts(response))
  <2>1. k \in 1..(L + 1) /\ k <= L
    BY <1>3 DEF BodyInv, PartsLeft
  <2> HIDE DEF L
  <2>2. k \in 1..L
    BY <2>1
  <2> QED BY <2>2 DEF L
<1>4. ASSUME PartsLeft PROVE Part \in GoodParts
  BY <1>1, <1>3, <1>4 DEF Part
<1>5. ASSUME PartsLeft
      PROVE  /\ LengthTo(AllParts(response), k - 1) \in Nat
             /\ LengthTo(AllParts(response), k)
                  = LengthTo(AllParts(response), k - 1) + PartLength(Part)
  <2> DEFINE parts == AllParts(response)
  <2>1. k - 1 \in 0..Len(parts) /\ k \in 1..Len(parts)
    BY <1>2, <1>3, <1>5
  <2>2. parts \in Seq(GoodParts) /\ Part = parts[k]
    BY <1>1 DEF Part
  <2> HIDE DEF parts
  <2>3. LengthTo(parts, k - 1) \in Nat
        /\ LengthTo(parts, k) = LengthTo(parts, k - 1) + PartLength(Part)
    BY <2>1, <2>2, BodyLengths
  <2> QED BY <2>3 DEF parts
<1> QED BY <1>1, <1>2, <1>3, <1>4, <1>5, PartFacts

LEMMA RespondBody ==
  ASSUME BodyInv, Respond
  PROVE  BodyInv'
<1>1. /\ constraint \in Constraints /\ DdsAccepted(constraint)
      /\ response' = Response(constraint) /\ constraint' = constraint
      /\ stage = "dds" /\ k = 1 /\ sent = 0
  BY DEF BodyInv, Respond, SentSoFar, Answering
<1>2. Len(AllParts(response')) \in Nat
  BY <1>1, ResponseIsGood
<1>3. 1 \in 1..(Len(AllParts(response')) + 1)
  BY <1>2
<1> QED BY <1>1, <1>3 DEF BodyInv, Respond, SentSoFar, Answering

\* One case per action of the stream.
LEMMA NextBody == BodyInv /\ [Next]_vars => BodyInv'
<1> SUFFICES ASSUME BodyInv, [Next]_vars PROVE BodyInv'
  OBVIOUS
<1> USE DEF Answering
<1>0. /\ AllParts(response) \in Seq(GoodParts) /\ Len(AllParts(response)) \in Nat
      /\ PartsLeft => /\ k \in 1..Len(AllParts(response)) /\ Part \in GoodParts
                      /\ PartBytes(Part) \in Nat /\ PartLength(Part) \in Nat
                      /\ Announced(Part) \in 0..(Word32 - 1)
                      /\ LengthTo(AllParts(response), k - 1) \in Nat
                      /\ LengthTo(AllParts(response), k)
                           = LengthTo(AllParts(response), k - 1) + PartLength(Part)
  BY BodyNow
<1>1. CASE Refuse
  BY <1>1 DEF Refuse, BodyInv, SentSoFar
<1>2. CASE Respond
  BY <1>2, RespondBody
<1>3. CASE SendDds
  BY <1>3, LengthsAssumption DEF SendDds, Yield, BodyInv, SentSoFar
<1>4. CASE SendSeparator
  <2>1. k = 1 /\ sent = HeaderLen /\ sent' = sent + SeparatorLen
    BY <1>4 DEF SendSeparator, Yield, BodyInv, SentSoFar
  <2>2. LengthTo(AllParts(response), 0) = HeaderLen + SeparatorLen
    BY <1>0, BodyLengths
  <2>3. sent' = LengthTo(AllParts(response), k - 1) /\ sent' \in Nat
    BY <2>1, <2>2, LengthsAssumption DEF SeparatorLen
  <2> QED BY <1>4, <2>1, <2>3 DEF SendSeparator, BodyInv, SentSoFar
<1>5. CASE SendPrefix
  <2>1. PartsLeft /\ sent = LengthTo(AllParts(response), k - 1)
    BY <1>5 DEF SendPrefix, BodyInv, SentSoFar
  <2>2. /\ sent' = sent + (IF IsScalar(Part) THEN 0 ELSE PrefixLen)
        /\ prefix' = IF IsScalar(Part) THEN -1 ELSE Announced(Part)
    BY <1>0, <1>5, <2>1 DEF SendPrefix, Yield
  <2>3. PartLength(Part) = PartBytes(Part) + (IF IsScalar(Part) THEN 0 ELSE PrefixLen)
    BY DEF PartLength
  <2>4. sent' + PartBytes(Part) = LengthTo(AllParts(response), k) /\ sent' \in Nat
    BY <1>0, <2>1, <2>2, <2>3 DEF PrefixLen
  <2>5. prefix' \in -1..(Word32 - 1)
    BY <1>0, <2>1, <2>2, LengthsAssumption
  <2> QED BY <1>5, <2>1, <2>2, <2>4, <2>5 DEF SendPrefix, BodyInv, SentSoFar, PartsLeft, Part
<1>6. CASE OpenPart
  BY <1>0, <1>6 DEF OpenPart, BodyInv, SentSoFar, PartsLeft, Part
<1>7. CASE SendChunk
  <2>1. PICK n \in 1..left : sent' = sent + n /\ left' = left - n
    BY <1>7 DEF SendChunk, Yield
  <2>2. stage = "data" /\ PartsLeft
    BY <1>7 DEF SendChunk, BodyInv
  <2>3. sent + left = LengthTo(AllParts(response), k) /\ sent \in Nat /\ left \in Nat
        /\ left <= PartBytes(Part)
    BY <2>2 DEF BodyInv, SentSoFar
  <2>4. sent' + left' = LengthTo(AllParts(response), k) /\ sent' \in Nat /\ left' \in Nat
        /\ left' <= PartBytes(Part)
    BY <1>0, <2>1, <2>2, <2>3
  <2> QED BY <1>7, <2>2, <2>4 DEF SendChunk, BodyInv, SentSoFar, PartsLeft, Part
<1>8. CASE NextPart
  <2>1. PartsLeft /\ left = 0 /\ sent + left = LengthTo(AllParts(response), k) /\ sent \in Nat
    BY <1>8 DEF NextPart, BodyInv, SentSoFar
  <2>2. k' \in 1..(Len(AllParts(response)) + 1) /\ k' - 1 = k
    BY <1>0, <1>8, <2>1 DEF NextPart
  <2>3. sent = LengthTo(AllParts(response), k)
    BY <2>1
  <2> QED BY <1>8, <2>1, <2>2, <2>3 DEF NextPart, BodyInv, SentSoFar
<1>9. CASE Break
  BY <1>9 DEF Break, BodyInv, SentSoFar, PartsLeft, Part
<1>10. CASE Finish
  BY <1>10 DEF Finish, BodyInv, SentSoFar, PartsLeft, Part
<1>11. CASE UNCHANGED vars
  BY <1>11 DEF vars, BodyInv, SentSoFar, PartsLeft, Part
<1> QED
  BY <1>1, <1>2, <1>3, <1>4, <1>5, <1>6, <1>7, <1>8, <1>9, <1>10, <1>11 DEF Next

\* A body is at any time the beginning of the body that the response calls for:
\* the DDS, the separator, and every part behind its length.
THEOREM BodyInvariant == Spec => []BodyInv
BY InitBody, NextBody, PTL DEF Spec

-----------------------------------------------------------------------------
(* What follows from it.                                                    *)

\* The state of a response is that of its stage, and its numbers have their
\* ranges, the announced length that of a usize.
THEOREM TypeCorrect == Spec => []TypeOK
<1>1. BodyInv => TypeOK
  <2> SUFFICES ASSUME BodyInv PROVE TypeOK
    OBVIOUS
  <2>1. content_length \in 0..(Word - 1)
    <3>1. CASE Answering
      <4>1. AllParts(response) \in Seq(GoodParts)
        BY BodyNow
      <4> QED BY <3>1, <4>1, AnnouncedLengthType DEF BodyInv
    <3>2. CASE ~Answering
      BY <3>2, WordAssumption DEF BodyInv
    <3> QED BY <3>1, <3>2
  <2> QED BY <2>1 DEF BodyInv, TypeOK, Answering
<1> QED BY <1>1, BodyInvariant, PTL

\* Whatever a client asks of whatever file, each part that is handed to
\* variable_xdr lies inside its variable (dds.rs:161-223, :342-364).
THEOREM SlabsStayInside == Spec => []SlabsInRange
<1>1. BodyInv => SlabsInRange
  <2> SUFFICES ASSUME BodyInv PROVE SlabsInRange
    OBVIOUS
  <2>1. AllParts(response) \in Seq(GoodParts)
    BY BodyNow
  <2>2. \A p \in 1..Len(AllParts(response)) : Inside(AllParts(response)[p])
    BY <2>1 DEF GoodParts, GoodPart
  <2> QED BY <2>2 DEF SlabsInRange, Inside
<1> QED BY <1>1, BodyInvariant, PTL

\* The length before an array is the number of elements that follow, as long as
\* no array has more than a u32 can count.
THEOREM PrefixAnnouncesLength ==
  ASSUME PrefixesFit
  PROVE  Spec => []PrefixIsLength
<1>1. BodyInv => PrefixIsLength
  <2> SUFFICES ASSUME BodyInv, status = "streaming", stage = "data", ~IsScalar(Part)
               PROVE  prefix * StreamedSize(Part.type) = PartBytes(Part)
    BY DEF PrefixIsLength
  <2> DEFINE n == Product(Part.counts)
             size == StreamedSize(Part.type)
  <2>1. PartsLeft /\ prefix = Announced(Part)
    BY DEF BodyInv
  <2>2. Part \in GoodParts /\ k \in 1..Len(AllParts(response))
    BY <2>1, BodyNow
  <2>3. n < Word32
    BY <2>2, PrefixesFit DEF BodyInv, Answering, PrefixesFit, Part
  <2>4. n \in Nat /\ size \in Nat /\ PartBytes(Part) = size * n
    BY <2>2, PartFacts DEF PartBytes
  <2>5. Part.size = Wrap(n)
    BY <2>2 DEF GoodParts, GoodPart
  <2> HIDE DEF n, size
  <2>6. n \in 0..(Word - 1) /\ n \in Int
    BY <2>3, <2>4, WordAssumption, LengthsAssumption
  <2>7. Part.size = n
    BY <2>5, <2>6, WrapType
  <2>8. n % Word32 = n
    BY <2>3, <2>4, LengthsAssumption
  <2>9. prefix = n
    BY <2>1, <2>7, <2>8 DEF Announced
  <2>10. n * size = size * n
    BY <2>4
  <2> QED BY <2>4, <2>9, <2>10 DEF size
<1> QED BY <1>1, BodyInvariant, PTL

\* The extents in the DDS text are those of the data, of a file in which every
\* dimension has a name.
THEOREM TextDescribesData ==
  ASSUME WellLabelled
  PROVE  Spec => []DdsDescribesData
<1>1. BodyInv => DdsDescribesData
  <2> SUFFICES ASSUME BodyInv, status = "streaming", stage = "data"
               PROVE  ShownSize(Part) * StreamedSize(Part.type) = PartBytes(Part)
    BY DEF DdsDescribesData
  <2>1. Part \in GoodParts
    BY BodyNow DEF BodyInv
  <2>2. ShownSize(Part) = Product(Part.counts)
    BY <2>1, WellLabelled DEF GoodParts, GoodPart
  <2>3. Product(Part.counts) \in Nat /\ StreamedSize(Part.type) \in Nat
    BY <2>1, PartFacts
  <2> DEFINE n == Product(Part.counts)
             size == StreamedSize(Part.type)
  <2> HIDE DEF n, size
  <2>4. n * size = size * n
    BY <2>3 DEF n, size
  <2> QED BY <2>2, <2>4 DEF PartBytes, n, size
<1> QED BY <1>1, BodyInvariant, PTL

\* However a constraint orders what it asks for, the response has the order of
\* the whole DDS, of a file that lists its variables by name.
THEOREM AnswersAreSorted ==
  ASSUME ListedByName
  PROVE  Spec => []SortedLikeAll
<1>1. BodyInv => SortedLikeAll
  <2> SUFFICES ASSUME BodyInv,
                      NEW i \in 1..Len(response), NEW j \in 1..Len(response), i < j
               PROVE  \E p, q \in 1..Len(All) :
                         p <= q /\ All[p].key = response[i].key /\ All[q].key = response[j].key
    BY DEF SortedLikeAll
  <2>1. DdsAccepted(constraint) /\ response = Response(constraint)
        /\ constraint \in Constraints
    BY DEF BodyInv, Answering
  <2>2. CASE constraint = <<>>
    <3>1. response = All
      BY <2>1, <2>2 DEF Response
    <3>2. i <= j
      BY <2>1, ResponseIsGood
    <3> QED BY <3>1, <3>2
  <2>3. CASE constraint # <<>>
    <3>1. PICK resolved \in Seq(Entries) : response = SortByPosition(resolved)
      <4> DEFINE rs == [x \in 1..Len(constraint) |-> Resolve(constraint[x])]
      <4>1. Len(constraint) \in Nat
        BY <2>1, ConstraintsAssumption
      <4>2. ASSUME NEW x \in 1..Len(constraint) PROVE Resolve(constraint[x]) \in Entries
        <5>1. constraint[x].struct \in BOOLEAN /\ WellFormed(constraint[x].slab)
          BY <2>1, ConstraintsAssumption DEF WellFormed
        <5>2. ItemAccepted(constraint[x])
          BY <2>1 DEF DdsAccepted
        <5> QED BY <5>1, <5>2, ResolvedEntry
      <4>3. rs \in Seq(Entries)
        BY <4>1, <4>2
      <4>4. response = SortByPosition(rs)
        BY <2>1, <2>3 DEF Response
      <4> QED BY <4>3, <4>4
    <3>2. /\ response \in Seq(Entries) /\ Len(response) = Len(resolved)
          /\ Position(response[i].key) <= Position(response[j].key)
      BY <3>1, SortedEntries
    <3>3. response[i] \in Entries /\ response[j] \in Entries
      BY <3>2
    <3>4. PICK v \in Variables : v.name = response[i].key
      BY <3>3 DEF Entries
    <3>5. PICK w \in Variables : w.name = response[j].key
      BY <3>3 DEF Entries
    <3>6. v.name <= w.name
      <4>1. v.name \in Int /\ w.name \in Int
        BY VariableTypes DEF FileVariables
      <4>2. Position(v.name) \in Int /\ Position(w.name) \in Int
        BY PositionType
      <4>3. ~(w.name < v.name)
        BY <3>2, <3>4, <3>5, <4>2, ListedByName DEF ListedByName
      <4> QED BY <4>1, <4>3
    <3>7. PICK p \in 1..Len(SortedNames) : SortedNames[p] = v.name
      BY NamesInOrder
    <3>8. PICK q \in 1..Len(SortedNames) : SortedNames[q] = w.name
      BY NamesInOrder
    <3>9. p <= q
      BY <3>6, <3>7, <3>8, NamesInOrder
    <3>10. Len(All) = Len(SortedNames)
      BY AllEntries
    <3>11. All[p].key = v.name /\ All[q].key = w.name
      <4>1. Var(v.name) = v /\ Var(w.name) = w
        BY VarOfVariable
      <4> QED BY <3>7, <3>8, <4>1 DEF All
    <3> QED BY <3>4, <3>5, <3>9, <3>10, <3>11
  <2> QED BY <2>2, <2>3
<1> QED BY <1>1, BodyInvariant, PTL

-----------------------------------------------------------------------------
(* The contract with the client.                                            *)

LEMMA NeverLonger ==
  ASSUME NEW parts \in Seq(GoodParts), NEW n \in 0..Len(parts)
  PROVE  LengthTo(parts, n) <= BodyLength(parts)
<1> DEFINE w == Lengths(parts)
           L == Len(parts)
           h == HeaderLen + SeparatorLen
           a == SumTo(w, n)
           b == SumTo(w, L)
<1>1. w \in Seq(Nat) /\ Len(w) = L /\ L \in Nat /\ n \in 0..L
  BY BodyLengths
<1>2. LengthTo(parts, n) = h + a /\ BodyLength(parts) = h + b
  BY DEF LengthTo, BodyLength
<1>3. h \in Nat
  BY LengthsAssumption DEF SeparatorLen
<1> HIDE DEF w, L, h
<1>4. L \in n..L /\ L \in 0..L
  BY <1>1
<1>5. a \in Nat /\ b \in Nat /\ a <= b
  BY <1>1, <1>4, SumEquation, SumsAscend
<1> HIDE DEF a, b
<1> QED BY <1>2, <1>3, <1>5

\* No more is sent than was announced, and of a complete body all of it.
LEMMA SentWithinAnnounced ==
  ASSUME BodiesFit, BodyInv, status = "streaming"
  PROVE  /\ content_length \in Nat
         /\ content_length = BodyLength(AllParts(response))
         /\ \A n \in 0..Len(AllParts(response)) :
               LengthTo(AllParts(response), n) \in Nat
               /\ LengthTo(AllParts(response), n) <= content_length
<1> DEFINE parts == AllParts(response)
<1>1. parts \in Seq(GoodParts)
  BY BodyNow
<1>2. BodyLength(parts) < Word
  BY BodiesFit DEF BodiesFit, BodyInv, Answering
<1>3. content_length = BodyLength(parts)
  <2>1. content_length = Wrap(ResponseSize(response) + HeaderLen + SeparatorLen)
    BY DEF BodyInv, Answering
  <2> QED BY <1>1, <1>2, <2>1, AnnouncedLength
<1> HIDE DEF parts
<1>4. \A n \in 0..Len(parts) : LengthTo(parts, n) \in Nat /\ LengthTo(parts, n) <= content_length
  BY <1>1, <1>3, BodyLengths, NeverLonger
<1>5. BodyLength(parts) \in Nat
  <2>1. Len(parts) \in 0..Len(parts)
    BY <1>1
  <2> QED BY <1>1, <2>1, BodyLengths DEF BodyLength
<1> QED BY <1>3, <1>4, <1>5 DEF parts

\* The response keeps to the HTTP contract, whatever it consists of and however
\* its data comes: the length that is announced before anything is read
\* (dods/mod.rs:70) is never exceeded, and a body that ends well has it.
THEOREM ImplementsHttp ==
  ASSUME BodiesFit
  PROVE  Spec => Body!Spec
<1>1. Init => Body!Init
  BY DEF Init, Body!Init
<1>2. ASSUME BodyInv, [Next]_vars PROVE [Body!Answer]_(Body!vars)
  <2> DEFINE parts == AllParts(response)
             L == Len(parts)
  <2>a. /\ L \in Nat /\ parts \in Seq(GoodParts) /\ sent \in Nat
        /\ PartsLeft => /\ k \in 1..L /\ Part \in GoodParts
                        /\ PartBytes(Part) \in Nat /\ PartLength(Part) \in Nat
                        /\ LengthTo(parts, k) = LengthTo(parts, k - 1) + PartLength(Part)
    BY <1>2, BodyNow DEF BodyInv
  <2>b. status = "streaming" =>
            /\ content_length \in Nat
            /\ content_length = LengthTo(parts, L)
            /\ \A n \in 0..L : LengthTo(parts, n) \in Nat /\ LengthTo(parts, n) <= content_length
    BY <1>2, BodiesFit, SentWithinAnnounced DEF BodyLength
  <2> HIDE DEF L, parts
  \* A step that sends what fits is one of the contract's.
  <2>c. ASSUME status = "streaming", UNCHANGED <<status, content_length>>,
               sent' \in Nat, sent <= sent', sent' <= content_length
        PROVE  [Body!Answer]_(Body!vars)
    <3>1. CASE sent' = sent
      BY <2>c, <3>1 DEF Body!vars
    <3>2. CASE sent' # sent
      <4>1. sent' \in (sent + 1)..content_length
        BY <2>a, <2>b, <2>c, <3>2
      <4> QED BY <2>c, <4>1 DEF Body!Answer, Body!Emit
    <3> QED BY <3>1, <3>2
  <2>1. CASE Refuse
    BY <2>1 DEF Refuse, Body!Answer, Body!Refuse
  <2>2. CASE Respond
    <3>1. AllParts(response') \in Seq(GoodParts)
      BY <1>2, <2>2, ResponseIsGood DEF Respond, BodyInv
    <3>2. content_length' = Wrap(ResponseSize(response') + HeaderLen + SeparatorLen)
      BY <2>2 DEF Respond
    <3>3. content_length' \in Nat
      BY <3>1, <3>2, AnnouncedLengthType
    <3> QED BY <2>2, <3>3 DEF Respond, Body!Answer, Body!Announce
  <2>3. CASE SendDds
    <3>1. status = "streaming" /\ sent = 0 /\ sent' = sent + HeaderLen
          /\ UNCHANGED <<status, content_length>>
      BY <1>2, <2>3 DEF SendDds, Yield, BodyInv, SentSoFar
    <3>2. LengthTo(parts, 0) = HeaderLen + SeparatorLen /\ 0 \in 0..L
      BY <2>a, BodyLengths
    <3>3. sent' \in Nat /\ sent <= sent' /\ sent' <= content_length
      BY <2>b, <3>1, <3>2, LengthsAssumption DEF SeparatorLen
    <3> QED BY <2>c, <3>1, <3>3
  <2>4. CASE SendSeparator
    <3>1. status = "streaming" /\ sent = HeaderLen /\ sent' = sent + SeparatorLen
          /\ UNCHANGED <<status, content_length>>
      BY <1>2, <2>4 DEF SendSeparator, Yield, BodyInv, SentSoFar
    <3>2. LengthTo(parts, 0) = HeaderLen + SeparatorLen /\ 0 \in 0..L
      BY <2>a, BodyLengths
    <3>3. sent' \in Nat /\ sent <= sent' /\ sent' <= content_length
      BY <2>b, <3>1, <3>2, LengthsAssumption DEF SeparatorLen
    <3> QED BY <2>c, <3>1, <3>3
  <2>5. CASE SendPrefix
    <3>1. status = "streaming" /\ PartsLeft /\ sent = LengthTo(parts, k - 1)
          /\ UNCHANGED <<status, content_length>>
      BY <1>2, <2>5 DEF SendPrefix, BodyInv, SentSoFar, parts
    <3>2. sent' = sent + (IF IsScalar(Part) THEN 0 ELSE PrefixLen)
      BY <2>a, <2>5 DEF SendPrefix, Yield
    <3>3. PartLength(Part) = PartBytes(Part) + (IF IsScalar(Part) THEN 0 ELSE PrefixLen)
      BY DEF PartLength
    <3>4. k \in 0..L
      BY <2>a, <3>1
    <3>5. LengthTo(parts, k) = sent + PartLength(Part) /\ LengthTo(parts, k) <= content_length
          /\ LengthTo(parts, k) \in Nat
      BY <2>a, <2>b, <3>1, <3>4
    <3>6. sent' \in Nat /\ sent <= sent' /\ sent' <= content_length
      BY <2>a, <2>b, <3>1, <3>2, <3>3, <3>5, SMTT(40) DEF PrefixLen
    <3> QED BY <2>c, <3>1, <3>6
  <2>6. CASE OpenPart
    BY <2>6 DEF OpenPart, Body!vars
  <2>7. CASE SendChunk
    <3>1. PICK n \in 1..left : sent' = sent + n
      BY <2>7 DEF SendChunk, Yield
    <3>2. status = "streaming" /\ stage = "data" /\ UNCHANGED <<status, content_length>>
      BY <2>7 DEF SendChunk
    <3>3. PartsLeft /\ sent + left = LengthTo(parts, k) /\ left \in Nat
      BY <1>2, <3>2 DEF BodyInv, SentSoFar, parts
    <3>4. k \in 0..L
      BY <2>a, <3>3
    <3>5. LengthTo(parts, k) <= content_length
      BY <2>b, <3>2, <3>4
    <3>6. sent' \in Nat /\ sent <= sent' /\ sent' <= content_length
      BY <2>a, <2>b, <3>1, <3>2, <3>3, <3>5
    <3> QED BY <2>c, <3>2, <3>6
  <2>8. CASE NextPart
    BY <2>8 DEF NextPart, Body!vars
  <2>9. CASE Break
    BY <2>9 DEF Break, Body!Answer, Body!Abort
  <2>10. CASE Finish
    <3>1. status = "streaming" /\ ~PartsLeft /\ sent = LengthTo(parts, k - 1)
          /\ k \in 1..(L + 1)
      BY <1>2, <2>10 DEF Finish, BodyInv, SentSoFar, parts, L
    <3>2. ~(k <= L)
      BY <3>1 DEF PartsLeft, parts, L
    <3>3. k - 1 = L
      BY <2>a, <3>1, <3>2
    <3>4. sent = content_length
      BY <2>b, <3>1, <3>3
    <3> QED BY <2>10, <3>4 DEF Finish, Body!Answer, Body!Complete
  <2>11. CASE UNCHANGED vars
    BY <2>11 DEF vars, Body!vars
  <2> QED
    BY <1>2, <2>1, <2>2, <2>3, <2>4, <2>5, <2>6, <2>7, <2>8, <2>9, <2>10, <2>11 DEF Next
<1> QED
  <2>1. []BodyInv /\ [][Next]_vars => [][Body!Answer]_(Body!vars)
    BY <1>2, PTL
  <2> QED BY <1>1, <2>1, BodyInvariant, PTL DEF Spec, Body!Spec
=============================================================================
