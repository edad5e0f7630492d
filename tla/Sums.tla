-------------------------------- MODULE Sums --------------------------------
(***************************************************************************)
(* Sums and products over the beginning of a sequence of numbers: where    *)
(* the members of an aggregate begin, how many elements a slab has, how    *)
(* long a body is.                                                         *)
(***************************************************************************)
EXTENDS Naturals, Sequences

\* w[1] + .. + w[n]
SumTo(w, n) ==
    LET sum[i \in 0..Len(w)] == IF i = 0 THEN 0 ELSE sum[i - 1] + w[i]
    IN  sum[n]

\* w[1] * .. * w[n]
ProductTo(w, n) ==
    LET product[i \in 0..Len(w)] == IF i = 0 THEN 1 ELSE product[i - 1] * w[i]
    IN  product[n]

Sum(w) == SumTo(w, Len(w))

Product(w) == ProductTo(w, Len(w))
=============================================================================
