--------------------------------- MODULE Dds ---------------------------------
(***************************************************************************)
(* The Data Description Structure of a dataset and its response to a       *)
(* constraint:                                                             *)
(*                                                                         *)
(*   Dds::from, all, dds, extend_indices, extend_counts,                   *)
(*   VarType::xdr_size, DdsVariableDetails     dap2/src/dds.rs             *)
(*   count_slab                                dap2/src/hyperslab.rs       *)
(*                                                                         *)
(* A variable of the file is [name, type, dims, shape]; names are numbers   *)
(* whose order is the order of the strings, so that the BTreeMap of the     *)
(* source is walked in ascending order.  usize arithmetic is modulo Word    *)
(* (2^64), as in a release build, which does not check overflow.            *)
(***************************************************************************)
EXTENDS Integers, FiniteSets, Sequences, SequencesExt, Sums

CONSTANTS
    File,   \* the variables of the data source, in the order it lists them
    Word    \* the values of a usize are 0 .. Word - 1

ASSUME WordAssumption == Word \in Nat /\ Word > 1

Types == {"Byte", "Int16", "UInt16", "Int32", "UInt32", "Float32", "Int64", "UInt64",
          "Float64"}

\* Variables have distinct names, and extents that fit in a usize.  What has
\* several dimensions is labelled along each, and the variable of that name is
\* along itself with the same extent: FilesAssumption and GridsAreConsistent of
\* Hdf5Metadata.
ASSUME FileAssumption ==
    /\ File \in Seq([name : Int, type : Types \cup {"Unimplemented"}, dims : Seq(Int),
                     shape : Seq(0..(Word - 1))])
    /\ \A i, j \in 1..Len(File) :
          /\ File[i].name = File[j].name => i = j
          /\ Len(File[i].dims) > 1 =>
                /\ Len(File[i].dims) = Len(File[i].shape)
                /\ \A d \in 1..Len(File[i].dims) :
                      File[i].dims[d] = File[j].name => File[j].shape = <<File[i].shape[d]>>

Wrap(n) == n % Word

-----------------------------------------------------------------------------
(* Dds::from.  A definition X_Y that precedes X is a mutation of X: a        *)
(* plausible mistake at that place.                                         *)

\* VarType::size and xdr_size, the latter in the response.  An unimplemented
\* type never gets that far.
Size(type) ==
    CASE type = "Byte" -> 1
      [] type \in {"Int16", "UInt16"} -> 2
      [] type \in {"Int32", "UInt32", "Float32"} -> 4
      [] type \in {"Int64", "UInt64", "Float64"} -> 8

XdrSize_Native(type) == Size(type)

XdrSize(type) == IF type \in {"Int16", "UInt16"} THEN 4 ELSE Size(type)

Variables == {v \in ToSet(File) : v.type # "Unimplemented"}

Has(name) == \E v \in Variables : v.name = name

Var(name) == CHOOSE v \in Variables : v.name = name

\* The place among all variables of the file: only the order of the positions
\* matters, and leaving some out does not change it.
Position(name) == CHOOSE k \in 1..Len(File) : File[k].name = name

\* The names of the map, in its order.
SortedNames ==
    LET names == {v.name : v \in Variables}
    IN  [k \in 1..Cardinality(names) |->
            CHOOSE n \in names : Cardinality({j \in names : j <= n}) = k]

-----------------------------------------------------------------------------
(* Slabs.  A slab is a sequence of slices, each a sequence of one to three   *)
(* numbers; an absent slab is <<>>, a present one <<slab>>.                  *)

\* With signed numbers.
CountSlab_Signed(slice) ==
    CASE Len(slice) = 1 -> 1
      [] Len(slice) = 2 -> slice[2] - slice[1] + 1
      [] Len(slice) = 3 -> (slice[3] - slice[1] + 1) \div slice[2]

CountSlab(slice) ==
    CASE Len(slice) = 1 -> 1
      [] Len(slice) = 2 -> Wrap(slice[2] - slice[1] + 1)
      [] Len(slice) = 3 -> Wrap(slice[3] - slice[1] + 1) \div slice[2]

Given(slab, d) == slab # <<>> /\ d <= Len(slab[1])

Index(slab, d) == IF Given(slab, d) THEN slab[1][d][1] ELSE 0

Indices(v, slab) == [d \in 1..Len(v.shape) |-> Index(slab, d)]

Counts(v, slab) ==
    [d \in 1..Len(v.shape) |->
        IF Given(slab, d) THEN CountSlab(slab[1][d])
        ELSE v.shape[d] - Index(slab, d)]

\* The checks of extend_indices and extend_counts, and the one for strides.
\* Without a slab nothing is checked.
SlabAccepted_CountOnly(v, slab) ==
    slab # <<>> =>
        /\ \A k \in 1..Len(slab[1]) : Len(slab[1][k]) < 3
        /\ Len(slab[1]) <= Len(v.shape)
        /\ \A d \in 1..Len(slab[1]) : CountSlab(slab[1][d]) <= v.shape[d]

SlabAccepted(v, slab) ==
    slab # <<>> =>
        /\ \A k \in 1..Len(slab[1]) : Len(slab[1][k]) < 3
        /\ Len(slab[1]) <= Len(v.shape)
        /\ \A d \in 1..Len(v.shape) : Index(slab, d) < v.shape[d]
        /\ \A d \in 1..Len(slab[1]) :
              CountSlab(slab[1][d]) <= v.shape[d] - Index(slab, d)

-----------------------------------------------------------------------------
(* The response.                                                            *)

ShorterOf(a, b) == IF a <= b THEN a ELSE b

\* The dimensions with their counts (zip: as far as both go).
CountedDims_Whole(v, counts) ==
    [d \in 1..ShorterOf(Len(v.dims), Len(counts)) |-> <<v.dims[d], v.shape[d]>>]

CountedDims(v, counts) ==
    [d \in 1..ShorterOf(Len(v.dims), Len(counts)) |-> <<v.dims[d], counts[d]>>]

\* DdsVariableDetails
Details(v, indices, counts) ==
    [name    |-> v.name,
     type    |-> v.type,
     dims    |-> CountedDims(v, counts),
     size    |-> Wrap(Product(counts)),   \* to wrap every factor is to wrap the product
     indices |-> indices,
     counts  |-> counts]

\* A variable is a grid if it has several dimensions, all of them variables.
IsGrid(v) == Len(v.dims) > 1 /\ \A d \in ToSet(v.dims) : Has(d)

\* The map of a grid for its k-th dimension.
MapDetails(v, indices, counts, k) ==
    [name    |-> v.dims[k],
     type    |-> Var(v.dims[k]).type,
     dims    |-> <<<<v.dims[k], counts[k]>>>>,
     size    |-> counts[k],
     indices |-> <<indices[k]>>,
     counts  |-> <<counts[k]>>]

\* What one variable of the response sends, in order: itself, and for a grid
\* its maps.  (izip: as far as dims, indices and counts go.)
Parts(v, indices, counts) ==
    <<Details(v, indices, counts)>>
    \o IF IsGrid(v)
       THEN [k \in 1..ShorterOf(Len(v.dims), Len(counts)) |->
                MapDetails(v, indices, counts, k)]
       ELSE <<>>

\* Dds::all: every variable in full, in the order of the names.  The maps of a
\* grid are the whole of their variables.
Whole(v) == Details(v, [d \in 1..Len(v.shape) |-> 0], v.shape)

All ==
    [k \in 1..Len(SortedNames) |->
        LET v == Var(SortedNames[k])
        IN  [key   |-> v.name,
             grid  |-> IsGrid(v),
             parts |-> <<Whole(v)>>
                       \o IF IsGrid(v)
                          THEN [j \in 1..Len(v.dims) |-> Whole(Var(v.dims[j]))]
                          ELSE <<>>]]

\* One item of the constraint: NAME[..] or OUTER.NAME[..], see Constraint.
ItemAccepted(item) ==
    /\ item.struct => Has(item.outer)
    /\ Has(item.name)
    /\ SlabAccepted(Var(item.name), item.slab)

Resolve(item) ==
    LET v == Var(item.name)
        indices == Indices(v, item.slab)
        counts == Counts(v, item.slab)
    IN  IF item.struct
        THEN [key |-> item.outer, grid |-> FALSE, parts |-> <<Details(v, indices, counts)>>]
        ELSE [key |-> v.name, grid |-> IsGrid(v), parts |-> Parts(v, indices, counts)]

\* sort_by_key(position), which is stable.
Precedes(resolved, j, k) ==
    \/ Position(resolved[j].key) < Position(resolved[k].key)
    \/ Position(resolved[j].key) = Position(resolved[k].key) /\ j <= k

OfRank(resolved, p) ==
    CHOOSE k \in 1..Len(resolved) :
        Cardinality({j \in 1..Len(resolved) : Precedes(resolved, j, k)}) = p

SortByPosition_AsRequested(resolved) == resolved

SortByPosition(resolved) == [p \in 1..Len(resolved) |-> resolved[OfRank(resolved, p)]]

DdsAccepted(constraint) ==
    \A k \in 1..Len(constraint) : ItemAccepted(constraint[k])

Response(constraint) ==
    IF constraint = <<>> THEN All
    ELSE SortByPosition([k \in 1..Len(constraint) |-> Resolve(constraint[k])])

\* DdsVariableDetails::is_scalar and dods_size; DdsResponse::dods_size.
IsScalar(part) == part.dims = <<>>

DodsSize(part) ==
    Wrap(Wrap(part.size * XdrSize(part.type)) + (IF IsScalar(part) THEN 0 ELSE 8))

AllParts(response) == FlattenSeq([i \in 1..Len(response) |-> response[i].parts])

ResponseSize(response) ==
    LET parts == AllParts(response)
    IN  Wrap(Sum([p \in 1..Len(parts) |-> DodsSize(parts[p])]))
=============================================================================
