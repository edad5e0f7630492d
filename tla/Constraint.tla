------------------------------ MODULE Constraint ------------------------------
(***************************************************************************)
(* How the query of a request becomes a constraint:                        *)
(*                                                                         *)
(*   Constraint::parse              dap2/src/constraint.rs                 *)
(*   parse_hyperslab, parse_slice   dap2/src/hyperslab.rs                  *)
(*   constraint()                   dars/src/data/filters.rs               *)
(*                                                                         *)
(* A query is a sequence of tokens: the five separators, numerals that fit *)
(* in a usize, and everything else (names).  No two numerals or names are  *)
(* adjacent, they would be one token.  Percent decoding happens before:    *)
(* what it makes of the text is left out, and that it fails is not.        *)
(***************************************************************************)
EXTENDS Naturals, FiniteSets, Sequences, SequencesExt

CONSTANTS
    Names,      \* tokens that are neither separators nor numerals
    Numerals,   \* numerals
    Value,      \* Value[t]: the number a numeral stands for
    Queries,    \* the queries of requests
    NoText,     \* no query at all, or one that does not decode to text
    Written     \* the constraints that clients write into queries

Separators == {",", ".", "[", "]", ":"}
Tokens == Separators \cup Names \cup Numerals

ASSUME TokensAssumption ==
    /\ Names \cap Numerals = {} /\ (Names \cup Numerals) \cap Separators = {}
    /\ Value \in [Numerals -> Nat]
    /\ Queries \ {NoText} \subseteq Seq(Tokens)

-----------------------------------------------------------------------------
(* The two string operations the parser is made of.                        *)

\* str::find of a separator: its first place, 0 if there is none.
Find(s, sep) == SelectInSeq(s, LAMBDA t : t = sep)

\* The members of a set of numbers, in order.
Ascending(S) ==
    [k \in 1..Cardinality(S) |-> CHOOSE i \in S : Cardinality({j \in S : j <= i}) = k]

\* The elements of a sequence at some of its places, in order.
AtPlaces(s, S) == [k \in 1..Cardinality(S) |-> s[Ascending(S)[k]]]

\* str::split at a separator.
Split(s, sep) ==
    LET cuts == Ascending({0, Len(s) + 1} \cup {i \in 1..Len(s) : s[i] = sep})
    IN  [k \in 1..(Len(cuts) - 1) |-> SubSeq(s, cuts[k] + 1, cuts[k + 1] - 1)]

-----------------------------------------------------------------------------
(* hyperslab.rs.  "X is accepted" and "what X means" are separate: Is.. and  *)
(* ..Of.  A definition X_Y that precedes X is a mutation of X: a plausible   *)
(* mistake at that place.                                                   *)

IsSlice_AnyLength(s) ==
    \A h \in ToSet(Split(s, ":")) : Len(h) = 1 /\ h[1] \in Numerals

IsSlice(s) ==
    /\ \A h \in ToSet(Split(s, ":")) : Len(h) = 1 /\ h[1] \in Numerals
    /\ Len(Split(s, ":")) <= 3

SliceOf(s) == [k \in 1..Len(Split(s, ":")) |-> Value[Split(s, ":")[k][1]]]

\* The non-empty pieces between closing brackets.
Slabs(s) ==
    LET pieces == Split(s, "]")
    IN  AtPlaces(pieces, {k \in DOMAIN pieces : pieces[k] # <<>>})

IsHyperslab_UncheckedEnd(s) ==
    /\ Len(s) >= 3
    /\ s[1] = "["
    /\ \A p \in ToSet(Slabs(s)) : p[1] = "[" /\ IsSlice(Tail(p))

IsHyperslab(s) ==
    /\ Len(s) >= 3
    /\ s[1] = "[" /\ s[Len(s)] = "]"
    /\ \A p \in ToSet(Slabs(s)) : p[1] = "[" /\ IsSlice(Tail(p))

HyperslabOf(s) == [k \in 1..Len(Slabs(s)) |-> SliceOf(Tail(Slabs(s)[k]))]

-----------------------------------------------------------------------------
(* constraint.rs: one item is NAME, NAME[..]., OUTER.NAME or OUTER.NAME[..]. *)

\* Everything after the first dot, or all of it.
Inner(v) == SubSeq(v, Find(v, ".") + 1, Len(v))

Bracket(v) == Find(Inner(v), "[")

SlabText(v) == SubSeq(Inner(v), Bracket(v), Len(Inner(v)))

IsItem(v) == Bracket(v) # 0 => IsHyperslab(SlabText(v))

\* ConstraintVariable::Variable has no outer name; slab is a sequence of at
\* most one hyperslab, the Option of the source.
ItemOf_DotKept(v) ==
    [struct |-> Find(v, ".") # 0,
     outer  |-> SubSeq(v, 1, Find(v, ".")),
     name   |-> IF Bracket(v) = 0 THEN Inner(v) ELSE SubSeq(Inner(v), 1, Bracket(v) - 1),
     slab   |-> IF Bracket(v) = 0 THEN <<>> ELSE <<HyperslabOf(SlabText(v))>>]

ItemOf(v) ==
    [struct |-> Find(v, ".") # 0,
     outer  |-> IF Find(v, ".") = 0 THEN <<>> ELSE SubSeq(v, 1, Find(v, ".") - 1),
     name   |-> IF Bracket(v) = 0 THEN Inner(v) ELSE SubSeq(Inner(v), 1, Bracket(v) - 1),
     slab   |-> IF Bracket(v) = 0 THEN <<>> ELSE <<HyperslabOf(SlabText(v))>>]

Accepted(query) == \A v \in ToSet(Split(query, ",")) : IsItem(v)

Parse(query) == [k \in 1..Len(Split(query, ",")) |-> ItemOf(Split(query, ",")[k])]

-----------------------------------------------------------------------------
(* The filter in front of the DDS and DODS handlers.                        *)

VARIABLES
    query,       \* the raw query, after decoding, or NoText
    state,       \* "received", "parsed" or "fallback"
    constraint   \* what the handler gets

vars == <<query, state, constraint>>

Init ==
    /\ query \in Queries
    /\ state = "received"
    /\ constraint = <<>>

Understood == query # NoText /\ Accepted(query)

ParseQuery ==
    /\ state = "received"
    /\ Understood
    /\ constraint' = Parse(query)
    /\ state' = "parsed"
    /\ UNCHANGED query

\* query::raw() rejects a request without a query, decode_utf8 and the parser are
\* errors: the first alternative of the filter is rejected, and the second one
\* supplies the empty constraint.
FallBack ==
    /\ state = "received"
    /\ ~Understood
    /\ constraint' = <<>>
    /\ state' = "fallback"
    /\ UNCHANGED query

Next == ParseQuery \/ FallBack

Spec == Init /\ [][Next]_vars

-----------------------------------------------------------------------------
(* The reference: how a constraint is written.                              *)

Numeral(n) == CHOOSE t \in Numerals : Value[t] = n

\* [a], [a:b] or [a:s:b]
RenderSlice(slice) ==
    <<"[">> \o FlattenSeq([k \in 1..Len(slice) |->
                 IF k = 1 THEN <<Numeral(slice[k])>> ELSE <<":", Numeral(slice[k])>>])
            \o <<"]">>

RenderItem(item) ==
    (IF item.struct THEN Append(item.outer, ".") ELSE <<>>)
    \o item.name
    \o FlattenSeq([k \in 1..Len(item.slab) |->
          FlattenSeq([d \in 1..Len(item.slab[k]) |-> RenderSlice(item.slab[k][d])])])

Render(items) ==
    FlattenSeq([k \in 1..Len(items) |->
        IF k = 1 THEN RenderItem(items[k]) ELSE <<",">> \o RenderItem(items[k])])

\* What can be written: the outer name ends at the first dot, the name at the
\* first bracket, an item at a comma; a slice is one to three numerals.
Items ==
    [struct : BOOLEAN, outer : Seq(Tokens), name : Seq(Tokens), slab : Seq(Seq(Seq(Nat)))]

Writable(item) ==
    /\ ToSet(item.outer) \cap {",", "."} = {} /\ ToSet(item.name) \cap {",", "["} = {}
    /\ ~item.struct => item.outer = <<>> /\ "." \notin ToSet(item.name)
    /\ Len(item.slab) <= 1
    /\ \A slab \in ToSet(item.slab) :
          slab # <<>> /\ \A slice \in ToSet(slab) :
              Len(slice) \in 1..3 /\ ToSet(slice) \subseteq {Value[t] : t \in Numerals}

ASSUME WrittenAssumption ==
    /\ Written \subseteq Seq(Items) \ {<<>>}
    /\ \A c \in Written : Render(c) # NoText /\ \A item \in ToSet(c) : Writable(item)

\* parse_hyperslab drops the empty pieces between closing brackets, so that
\* one bracket too many is forgiven.
ForgiveBrackets(s) ==
    AtPlaces(s, {i \in 1..Len(s) : ~(i > 1 /\ s[i] = "]" /\ s[i - 1] = "]")})

-----------------------------------------------------------------------------
\* What the handlers and Dds::dds rely on: every slice has one to three
\* numbers, so that v[0] (dds.rs:156) and count_slab's last branch
\* (hyperslab.rs:17) never panic.
TypeOK ==
    /\ query \in Queries
    /\ state \in {"received", "parsed", "fallback"}
    /\ \A item \in ToSet(constraint) :
          /\ item.struct \in BOOLEAN
          /\ Len(item.slab) <= 1
          /\ \A slab \in ToSet(item.slab) :
                slab # <<>> /\ \A slice \in ToSet(slab) : Len(slice) \in 1..3

\* A query that is accepted means what it says: written out again, the
\* constraint is the query, up to repeated closing brackets.  No character is
\* dropped, moved to another variable or read as part of another number by the
\* chain of find, split and strip_prefix (constraint.rs:51-75, hyperslab.rs:36-51).
AcceptedMeansWhatItSays ==
    state = "parsed" =>
        ForgiveBrackets(Render(constraint)) = ForgiveBrackets(query)

\* A constraint that a client writes down is the constraint that the handler
\* gets (constraint.rs:51-75).
WrittenIsUnderstood ==
    state # "received" =>
        \A c \in Written : Render(c) = query => state = "parsed" /\ constraint = c
=============================================================================
