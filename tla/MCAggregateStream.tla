-------------------------- MODULE MCAggregateStream --------------------------
(* Four members of unequal length: every slab of the aggregate is an       *)
(* initial state, among them those that start or end on a boundary, lie    *)
(* inside one member, span all four, and are empty.                        *)
EXTENDS AggregateStream

MCN == <<2, 1, 3, 1>>
MCOffset == [k \in 0..4 |-> CASE k = 0 -> 0 [] k = 1 -> 2 [] k = 2 -> 3
                              [] k = 3 -> 6 [] k = 4 -> 7]
=============================================================================
