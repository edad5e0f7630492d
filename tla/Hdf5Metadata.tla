---------------------------- MODULE Hdf5Metadata ----------------------------
(***************************************************************************)
(* How a file becomes a DAS and a DDS:                                     *)
(*                                                                         *)
(*   ToDas for HDF5File, h5attr_to_das        dars/src/hdf5/das.rs         *)
(*   From<ToDas> for Das, Attribute           dap2/src/das.rs              *)
(*   ToDds for HDF5File, hdf5_vartype,                                     *)
(*   hdf5_dimensions                          dars/src/hdf5/dds.rs         *)
(*   ToDds for NcmlDdsBuilder                 dars/src/ncml/dds.rs         *)
(*                                                                         *)
(* Both walk the root group, one after the other, and each decides for     *)
(* itself what a variable is.  A member of the group is [name, dataset,    *)
(* allocated, type, shape, scales, attrs], where scales is what             *)
(* DIMENSION_LIST refers to, Unlabelled without that attribute, and an      *)
(* attribute is [name, type, scalar].  The text of either response is left   *)
(* out, and the values of the attributes with it: the DAS is the containers *)
(* with the names and types that they show, the DDS the variables as the    *)
(* module Dds takes them.                                                   *)
(***************************************************************************)
EXTENDS Naturals, Sequences, SequencesExt

CONSTANTS
    Files,        \* the files: [global, members]
    Builders,     \* who asks: Hdf5, or [dimension, n] for an aggregate
    Hdf5,
    Unlabelled,
    Unreadable    \* global, where the attributes of the file cannot be listed

VARIABLES
    file,      \* the file being opened
    builder,   \* what it is opened as
    stage,     \* "global", "das", "dds", "done", or "panic"
    next,      \* the member of the root group to look at
    das,       \* the containers so far: [name, attrs]
    dds        \* the variables so far: [name, type, dims, shape]

vars == <<file, builder, stage, next, das, dds>>

Init ==
    /\ file \in Files
    /\ builder \in Builders
    /\ stage = "global"
    /\ next = 1
    /\ das = <<>>
    /\ dds = <<>>

-----------------------------------------------------------------------------
(* A definition X_Y that precedes X is a mutation of X: a plausible mistake *)
(* at that place.                                                           *)

Bookkeeping == {"DIMENSION_LIST", "REFERENCE_LIST", "_NCProperties", "_nc3_strict",
                "_Netcdf4Dimid", "CLASS", "NAME"}

\* h5attr_to_das together with the type that Attribute prints, "hidden" for
\* Ignored and Unimplemented.  "ascii" is a text of one of the lengths that
\* fixedascii_to_string lists.
AttrType_Wide(a) ==
    CASE a.name \in Bookkeeping -> "hidden"
      [] a.type \in {"i16", "i32"} -> "Int32"
      [] a.type = "f32" -> "Float32"
      [] a.type = "f64" -> "Float64"
      [] a.type = "ascii" /\ a.scalar -> "String"
      [] OTHER -> "hidden"

AttrType(a) ==
    CASE a.name \in Bookkeeping -> "hidden"
      [] a.type = "i16" -> "Int16"
      [] a.type = "i32" -> "Int32"
      [] a.type = "f32" -> "Float32"
      [] a.type = "f64" -> "Float64"
      [] a.type = "ascii" /\ a.scalar -> "String"
      [] OTHER -> "hidden"

Described(a) == [name |-> a.name, type |-> AttrType(a)]

\* The filter of Das::from.
Shown_All(attrs) == [i \in DOMAIN attrs |-> Described(attrs[i])]

Shown(attrs) ==
    FlattenSeq([i \in DOMAIN attrs |->
                   IF AttrType(attrs[i]) = "hidden" THEN <<>> ELSE <<Described(attrs[i])>>])

VarType(type) ==
    CASE type = "u8" -> "Byte"
      [] type = "u16" -> "UInt16"
      [] type = "u32" -> "UInt32"
      [] type = "u64" -> "UInt64"
      [] type = "i16" -> "Int16"
      [] type = "i32" -> "Int32"
      [] type = "i64" -> "Int64"
      [] type = "f32" -> "Float32"
      [] type = "f64" -> "Float64"
      [] OTHER -> "Unimplemented"

\* self.0.dataset(m) succeeds, and the data set is not un-allocated.
Listed(m) == m.dataset /\ m.allocated

Dimensions(m) == IF m.scales = Unlabelled THEN <<m.name>> ELSE m.scales

\* A dimension without a scale has an empty reference list; the name of what
\* it refers to cannot be cut.
Partial(m) == m.scales # Unlabelled /\ \E i \in DOMAIN m.scales : m.scales[i] = "none"

\* In a netCDF file a labelled variable has a label for every dimension, a
\* coordinate variable is along itself, and all that share a dimension have its
\* extent.  A fill value has the type of its variable.
Along(v, w) ==
    { i \in DOMAIN Dimensions(v) : Len(Dimensions(v)) > 1 /\ Dimensions(v)[i] = w.name }

Attributes == [name : STRING, type : STRING, scalar : BOOLEAN]

ASSUME FilesAssumption ==
    \A f \in Files :
        /\ Len(f.members) \in Nat
        /\ \A k, l \in 1..Len(f.members) :
              LET v == f.members[k]
                  w == f.members[l]
              IN  Listed(v) /\ Listed(w) =>
                    /\ v.shape \in Seq(Nat)
                    /\ v.scales # Unlabelled => v.scales \in Seq(STRING) /\ Len(v.scales) = Len(v.shape)
                    /\ \A i \in Along(v, w) :
                          Dimensions(w) = <<w.name>> /\ w.shape = <<v.shape[i]>>
        /\ f.global # Unreadable => f.global \in Seq(Attributes)
        /\ \A k \in 1..Len(f.members) :
              LET v == f.members[k]
              IN  /\ v.attrs \in Seq(Attributes)
                  /\ Listed(v) =>
                        \A a \in ToSet(v.attrs) : a.name = "_FillValue" => a.type = v.type

\* The aggregation dimension is the outermost one where it occurs.
ASSUME BuildersAssumption ==
    \A b \in Builders \ {Hdf5} :
        /\ b.n \in Nat
        /\ \A f \in Files : \A k \in 1..Len(f.members) :
              \A i \in DOMAIN Dimensions(f.members[k]) :
                  Dimensions(f.members[k])[i] = b.dimension => i = 1

\* The extent of the aggregation dimension is that of all members; only the
\* outermost dimension is looked at.  shape[0] panics for a scalar.
Aggregated(m) == builder # Hdf5 /\ Dimensions(m) # <<>> /\ Dimensions(m)[1] = builder.dimension

Shape_OnlyGridded(m) ==
    IF Aggregated(m) /\ Len(m.shape) > 1 THEN [m.shape EXCEPT ![1] = builder.n] ELSE m.shape

Shape(m) ==
    IF Aggregated(m) THEN [m.shape EXCEPT ![1] = builder.n] ELSE m.shape

ContainerOf(m) == [name |-> m.name, attrs |-> Shown(m.attrs)]

VariableOf(m) ==
    [name |-> m.name, type |-> VarType(m.type), dims |-> Dimensions(m), shape |-> Shape(m)]

Member == file.members[next]

More == next <= Len(file.members)

\* has_global_attributes(): one container comes before those of the variables.
HasGlobal == file.global # Unreadable

Before == IF HasGlobal THEN 1 ELSE 0

GlobalContainer == [name |-> "NC_GLOBAL", attrs |-> Shown(file.global)]

-----------------------------------------------------------------------------
GlobalAttributes ==
    /\ stage = "global"
    /\ das' = IF HasGlobal THEN <<GlobalContainer>> ELSE <<>>
    /\ stage' = "das"
    /\ UNCHANGED <<file, builder, next, dds>>

DasVariable_Described ==
    /\ stage = "das" /\ More
    /\ das' = IF Listed(Member) /\ Shown(Member.attrs) # <<>>
              THEN Append(das, ContainerOf(Member))
              ELSE das
    /\ next' = next + 1
    /\ UNCHANGED <<file, builder, stage, dds>>

DasVariable ==
    /\ stage = "das" /\ More
    /\ das' = IF Listed(Member) THEN Append(das, ContainerOf(Member)) ELSE das
    /\ next' = next + 1
    /\ UNCHANGED <<file, builder, stage, dds>>

DasDone ==
    /\ stage = "das" /\ ~More
    /\ stage' = "dds"
    /\ next' = 1
    /\ UNCHANGED <<file, builder, das, dds>>

DdsVariable ==
    /\ stage = "dds" /\ More
    /\ ~(Listed(Member) /\ (Partial(Member) \/ (Aggregated(Member) /\ Member.shape = <<>>)))
    /\ dds' = IF Listed(Member) THEN Append(dds, VariableOf(Member)) ELSE dds
    /\ next' = next + 1
    /\ UNCHANGED <<file, builder, stage, das>>

DdsPanics ==
    /\ stage = "dds" /\ More
    /\ Listed(Member)
    /\ Partial(Member) \/ (Aggregated(Member) /\ Member.shape = <<>>)
    /\ stage' = "panic"
    /\ UNCHANGED <<file, builder, next, das, dds>>

DdsDone ==
    /\ stage = "dds" /\ ~More
    /\ stage' = "done"
    /\ UNCHANGED <<file, builder, next, das, dds>>

Next ==
    \/ GlobalAttributes \/ DasVariable \/ DasDone
    \/ DdsVariable \/ DdsPanics \/ DdsDone

Spec == Init /\ [][Next]_vars

-----------------------------------------------------------------------------
(* Properties.                                                              *)

Printed == {"Int16", "Int32", "Float32", "Float64", "String"}

TypeOK ==
    /\ file \in Files /\ builder \in Builders
    /\ stage \in {"global", "das", "dds", "done", "panic"}
    /\ next \in 1..(Len(file.members) + 1)
    /\ \A i \in DOMAIN das : \A a \in ToSet(das[i].attrs) : a.type \in Printed
    /\ \A i \in DOMAIN dds : dds[i].shape \in Seq(Nat)

\* The DAS is built by one walk over the file and the DDS by another, with the
\* filter for un-allocated data sets written out in each (das.rs:32, dds.rs:121,
\* ncml/dds.rs:32): what the one describes is what the other describes, in the
\* same order, even if there is nothing to say about it.
DasCoversDds ==
    stage = "done" =>
        /\ Len(das) = Len(dds) + Before
        /\ \A i \in DOMAIN dds : das[i + Before].name = dds[i].name

\* The type of an attribute and the type of a variable go through two different
\* tables (das.rs:83-100, dds.rs:19-43).  A fill value has the type of its
\* variable in the file; where it is shown, it has it in the response.  (Text has a
\* container in the DAS, but is left out of the DDS when that is put together.)
FillValueHasTypeOfVariable ==
    stage = "done" =>
        \A i \in DOMAIN dds : \A a \in ToSet(das[i + Before].attrs) :
            a.name = "_FillValue" /\ dds[i].type # "Unimplemented" => a.type = dds[i].type

\* The modules Dds and Dods take the maps of a grid from the variables that its
\* dimensions name.  Each of them has one dimension of the extent that the grid
\* shows, and an aggregate, which writes its own extent into every variable on
\* its own (ncml/dds.rs:41-43), keeps it so.
GridsAreConsistent ==
    stage = "done" =>
        \A v, w \in ToSet(dds) : \A i \in DOMAIN v.dims :
            Len(v.dims) > 1 /\ v.dims[i] = w.name => w.shape = <<v.shape[i]>>

-----------------------------------------------------------------------------
(* The inductive invariant behind DasCoversDds and GridsAreConsistent: the  *)
(* listed members, in the order of the file, are those at p[1], .., p[n].   *)

Positions == 1..Len(file.members)

Containers ==
    (IF HasGlobal THEN {GlobalContainer} ELSE {})
    \cup { ContainerOf(file.members[k]) : k \in Positions }

Variables == { VariableOf(file.members[k]) : k \in Positions }

WalkTypes ==
    /\ file \in Files /\ builder \in Builders
    /\ stage \in {"global", "das", "dds", "done", "panic"}
    /\ next \in 1..(Len(file.members) + 1)
    /\ das \in Seq(Containers) /\ dds \in Seq(Variables)
    /\ stage \in {"global", "das"} => dds = <<>>
    /\ stage = "global" => das = <<>> /\ next = 1
    /\ stage = "done" => next = Len(file.members) + 1

\* The first walk has been here.
DasWalked(k) == stage \in {"dds", "done", "panic"} \/ (stage = "das" /\ k < next)

Listing(n, p) ==
    /\ \A i, j \in 1..n : i < j => p[i] < p[j]
    /\ \A i \in 1..n : Listed(file.members[p[i]]) /\ DasWalked(p[i])
    /\ \A k \in Positions :
          Listed(file.members[k]) /\ DasWalked(k) => \E i \in 1..n : p[i] = k
    /\ stage = "das" => n < next

DasFollows(n, p) ==
    stage # "global" =>
        /\ Len(das) = n + Before
        /\ \A i \in 1..n : das[i + Before] = ContainerOf(file.members[p[i]])

\* The second walk is at one of them, or between two.
DdsFollows(n, p) ==
    stage \in {"dds", "done", "panic"} =>
        /\ \A i \in 1..Len(dds) :
              i <= n /\ p[i] < next /\ dds[i] = VariableOf(file.members[p[i]])
        /\ \A i \in 1..n : i > Len(dds) => next <= p[i]

WalksAgree ==
    \E n \in 0..Len(file.members) : \E p \in [1..n -> Positions] :
        Listing(n, p) /\ DasFollows(n, p) /\ DdsFollows(n, p)

WalkInv == WalkTypes /\ WalksAgree
=============================================================================
