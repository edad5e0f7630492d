--------------------------- MODULE MCHdf5Metadata ---------------------------
(* A group, a scalar, a coordinate variable, a variable of any type over    *)
(* time and x, and x as a variable, as a dimension without data, or not     *)
(* there at all; opened by itself or as the first member of an aggregate    *)
(* along time.  One file has a dimension without a scale, and the attributes *)
(* of one cannot be listed.                                                 *)
EXTENDS Hdf5Metadata

A(name, type, scalar) == [name |-> name, type |-> type, scalar |-> scalar]
Fill(type) == A("_FillValue", type, FALSE)
M(name, type, shape, scales, attrs) ==
    [name |-> name, dataset |-> TRUE, allocated |-> TRUE, type |-> type,
     shape |-> shape, scales |-> scales, attrs |-> attrs]

Numbers == {"u8", "u16", "u32", "u64", "i16", "i32", "i64", "f32", "f64"}

Group == [M("group", "none", <<>>, Unlabelled, <<>>) EXCEPT !.dataset = FALSE]
Scalar == M("crs", "i32", <<>>, Unlabelled, <<A("grid_mapping_name", "varlen", TRUE)>>)
Time == M("time", "f64", <<2>>, Unlabelled,
          <<A("CLASS", "ascii", TRUE), A("units", "ascii", TRUE),
            A("REFERENCE_LIST", "compound", FALSE)>>)
Label == M("label", "string", <<2>>, <<"time">>, <<A("DIMENSION_LIST", "vlen", FALSE)>>)
Field(type) == M("v", type, <<2, 3>>, <<"time", "x">>,
                 <<A("DIMENSION_LIST", "vlen", FALSE), Fill(type),
                   A("valid_range", "f32", FALSE)>>)
Flag == M("flag", "ascii", <<2>>, <<"time">>,
          <<A("DIMENSION_LIST", "vlen", FALSE), A("_FillValue", "ascii", TRUE)>>)
X == M("x", "f32", <<3>>, Unlabelled, <<>>)
NoX == [X EXCEPT !.allocated = FALSE]
HalfLabelled == M("w", "i32", <<2, 3>>, <<"time", "none">>, <<>>)

Global == <<A("history", "ascii", TRUE), A("_NCProperties", "ascii", TRUE),
            A("version", "i32", TRUE), A("tags", "ascii", FALSE)>>

File(members) == [global |-> Global, members |-> members]

MCFiles ==
    { File(<<Group, Scalar, Label, Time, Field(t), x>>) : t \in Numbers, x \in {X, NoX} }
    \cup { File(<<Time, Flag, Field("f32")>>), File(<<Time, HalfLabelled, X>>), File(<<>>),
           [File(<<X, Group, Flag>>) EXCEPT !.global = Unreadable] }

MCBuilders == { Hdf5, [dimension |-> "time", n |-> 5] }
=============================================================================
