------------------------------- MODULE MCDods -------------------------------
(* A gridded variable 3 over the coordinate variables 1 and 2, an array 4    *)
(* along 1 only, a scalar 5 and a variable 6 of a type that is left out.     *)
EXTENDS Dods

V(name, type, dims, shape) == [name |-> name, type |-> type, dims |-> dims, shape |-> shape]

Labelled == <<
    V(1, "Float64", <<1>>, <<2>>),
    V(2, "Int32", <<2>>, <<3>>),
    V(3, "Int16", <<1, 2>>, <<2, 3>>),
    V(4, "Byte", <<1>>, <<2>>),
    V(5, "Float32", <<5>>, <<>>),
    V(6, "Unimplemented", <<6>>, <<1>>) >>

\* Single values, ranges, reversed ranges, the range to the last usize (whose
\* count wraps), strides.
Slices == {<<a>> : a \in 0..3} \cup {<<a, b>> : a \in 0..3, b \in 0..3 \cup {Word - 1}}
          \cup {<<0, 1, 1>>, <<0, 2, 2>>}

Slabs == {<<>>} \cup {<< <<x>> >> : x \in Slices}
         \cup {<< <<x, y>> >> : x, y \in {<<0>>, <<1>>, <<2>>, <<0, 1>>, <<1, 2>>, <<1, 0>>}}

Plain(n, slab) == [struct |-> FALSE, outer |-> 0, name |-> n, slab |-> slab]
Member(o, n, slab) == [struct |-> TRUE, outer |-> o, name |-> n, slab |-> slab]

\* Every variable and one that does not exist, with every slab; as the member
\* of a structure; and pairs of items.
Single == {<<Plain(n, s)>> : n \in 1..7, s \in Slabs}
          \cup {<<Member(o, n, s)>> : o \in {3, 7}, n \in {1, 7}, s \in Slabs}
Pair == {<<Plain(n, <<>>), Plain(m, << <<<<0>>>> >>)>> : n, m \in {1, 2, 3, 5}}

MCConstraints == {<<>>} \cup Single \cup Pair

\* What the proofs assume is so here.
ASSUME BodiesFit /\ PrefixesFit /\ WellLabelled /\ ListedByName
=============================================================================
