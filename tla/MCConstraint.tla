----------------------------- MODULE MCConstraint -----------------------------
(* All token sequences up to MaxLen, and the renderings of all constraints   *)
(* of one or two items over two names with slabs of up to two dimensions.    *)
EXTENDS Constraint

CONSTANT MaxLen

MCValue == [t \in {"0", "7"} |-> IF t = "0" THEN 0 ELSE 7]

\* Adjacent numerals or names would be one token.
Lexed(s) == \A i \in 1..(Len(s) - 1) :
    s[i] \in {",", ".", "[", "]", ":"} \/ s[i + 1] \in {",", ".", "[", "]", ":"}

ShortQueries ==
    {s \in BoundedSeq({",", ".", "[", "]", ":", "A", "7"}, MaxLen) : Lexed(s)}

Slices == BoundedSeq({0, 7}, 3) \ {<<>>}
SlabsOf == {<<x>> : x \in Slices} \cup {<<x, <<7>> >> : x \in Slices}
MCItems == [struct : {FALSE}, outer : {<<>>}, name : {<<"A">>},
            slab : {<<>>} \cup {<<h>> : h \in SlabsOf}]
           \cup
           [struct : {TRUE}, outer : {<<"A">>}, name : {<<"B">>, <<"B", ".", "A">>},
            slab : {<<>>} \cup {<<h>> : h \in SlabsOf}]

MCWritten == {<<i>> : i \in MCItems}
             \cup {<<[struct |-> TRUE, outer |-> <<"B">>, name |-> <<"A">>, slab |-> <<>>], i>>
                      : i \in MCItems}

\* A slice of four numbers (the test too_many_values of hyperslab.rs).
TooMany == {<<"A", "[", a, ":", "7", ":", "7", ":", b, "]">> : a, b \in {"0", "7"}}

MCQueries == ShortQueries \cup TooMany \cup {Render(c) : c \in Written} \cup {NoText}
=============================================================================
