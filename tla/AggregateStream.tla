--------------------------- MODULE AggregateStream ---------------------------
(***************************************************************************)
(* The stream of an aggregated NcML variable: the branch of                *)
(* NcmlDataset::variable_xdr (dars/src/ncml/mod.rs) that walks the members *)
(* of the aggregate, cuts the requested slab at the member boundaries and  *)
(* concatenates what NcmlMember::stream_xdr (dars/src/ncml/member.rs)      *)
(* yields for each piece.                                                  *)
(*                                                                         *)
(* A joinExisting aggregate is joined along the outermost dimension only,  *)
(* so a slab is a pair (first, count) of rows of that dimension; the other *)
(* dimensions are handed to every member unchanged and are left out.  One  *)
(* row stands for the bytes of that row.                                   *)
(***************************************************************************)
EXTENDS Naturals

CONSTANTS
    M,       \* number of members
    N,       \* N[m]: rows of member m (NcmlMember.n)
    Offset   \* Offset[m]: rows of the members 1 .. m together

\* NcmlMember::open refuses a member whose aggregate dimension is empty, and
\* NcmlDataset::open an aggregate without members.
ASSUME MembersAssumption ==
    /\ M \in Nat \ {0}
    /\ N \in [1..M -> Nat \ {0}]

\* Offset holds the prefix sums of N.
ASSUME OffsetAssumption ==
    /\ Offset \in [0..M -> Nat]
    /\ Offset[0] = 0
    /\ \A m \in 1..M : Offset[m] = Offset[m - 1] + N[m]

VARIABLES
    first, count,   \* indices[0] and counts[0] of the request
    m,              \* the member the loop is at, M + 1 after the last
    member_start,   \* the loop's running sum
    reading,        \* TRUE while the stream of member m is drained
    slab,           \* rows of member m still to come: [from, left]
    status,         \* "streaming", "done" or "failed"
    delivered,      \* history: rows yielded so far
    last            \* history: the rows yielded last, [member, from, rows]

vars == <<first, count, m, member_start, reading, slab, status, delivered, last>>

Total == Offset[M]

MinOf(a, b) == IF a <= b THEN a ELSE b

TypeOK ==
    /\ first \in Nat
    /\ count \in Nat
    /\ m \in 1..(M + 1)
    /\ member_start \in Nat
    /\ reading \in BOOLEAN
    /\ slab \in [from : Nat, left : Nat]
    /\ status \in {"streaming", "done", "failed"}
    /\ delivered \in Nat
    /\ last \in [member : 1..M, from : Nat, rows : Nat]

\* Every slab that Dds::dds accepts for a variable of shape[0] = Total: it
\* starts inside the variable and ends inside it.  A count of zero is among
\* them (see SlabAccepted in Dds).
Init ==
    /\ first \in 0..(Total - 1)
    /\ count \in 0..(Total - first)
    /\ m = 1
    /\ member_start = 0
    /\ reading = FALSE
    /\ slab = [from |-> 0, left |-> 0]
    /\ status = "streaming"
    /\ delivered = 0
    /\ last = [member |-> 1, from |-> first, rows |-> 0]

-----------------------------------------------------------------------------
(* The three conditions of the loop body, in the order they are tested.    *)
(* A definition X_Y that precedes X is a mutation of X: a plausible mistake *)
(* at that place, kept to show that the properties below would notice it.  *)

StartsHere_Inclusive == first >= member_start /\ first <= member_start + N[m]

StartsHere == first >= member_start /\ first < member_start + N[m]

ContinuesHere_Inclusive ==
    /\ ~StartsHere
    /\ first < member_start
    /\ member_start <= first + count

ContinuesHere ==
    /\ ~StartsHere
    /\ first < member_start
    /\ member_start < first + count

PastTheSlab ==
    /\ ~StartsHere
    /\ ~ContinuesHere
    /\ first + count < member_start

AtLoopHead == status = "streaming" /\ ~reading /\ m <= M

\* What the member is asked for: mindices[0] and mcounts[0].
FirstPiece_Swapped ==
    [from |-> member_start - first,
     left |-> MinOf(count, N[m] - (first - member_start))]

FirstPiece ==
    [from |-> first - member_start,
     left |-> MinOf(count, N[m] - (first - member_start))]

NextPiece_WholeSlab ==
    [from |-> 0, left |-> MinOf(count, N[m])]

NextPiece ==
    [from |-> 0, left |-> MinOf(first + count - member_start, N[m])]

\* m.stream_xdr(..).await? succeeds: the piece of this member starts.
OpenPiece ==
    /\ AtLoopHead
    /\ \/ StartsHere /\ slab' = FirstPiece
       \/ ContinuesHere /\ slab' = NextPiece
    /\ reading' = TRUE
    /\ UNCHANGED <<first, count, m, member_start, status, delivered, last>>

\* m.stream_xdr(..).await? fails: the member is gone, has changed on disk, or
\* lacks the variable.  The error is yielded and the stream ends.
OpenPieceFails ==
    /\ AtLoopHead
    /\ StartsHere \/ ContinuesHere
    /\ status' = "failed"
    /\ UNCHANGED <<first, count, m, member_start, reading, slab, delivered, last>>

\* The member's stream yields a chunk of k rows, which is passed on.
Chunk ==
    /\ status = "streaming"
    /\ reading
    /\ \E k \in 1..slab.left :
          /\ slab' = [from |-> slab.from + k, left |-> slab.left - k]
          /\ delivered' = delivered + k
          /\ last' = [member |-> m, from |-> slab.from, rows |-> k]
    /\ UNCHANGED <<first, count, m, member_start, reading, status>>

\* The member's stream yields an error, which is passed on as an item; the
\* client of the stream stops polling at the first error.
ChunkFails ==
    /\ status = "streaming"
    /\ reading
    /\ slab.left > 0
    /\ status' = "failed"
    /\ UNCHANGED <<first, count, m, member_start, reading, slab, delivered, last>>

\* The member's stream is exhausted: member_start += m.n, next member.
PieceDone ==
    /\ status = "streaming"
    /\ reading
    /\ slab.left = 0
    /\ reading' = FALSE
    /\ member_start' = member_start + N[m]
    /\ m' = m + 1
    /\ UNCHANGED <<first, count, slab, status, delivered, last>>

\* A member that none of the three conditions is about.
SkipMember ==
    /\ AtLoopHead
    /\ ~StartsHere
    /\ ~ContinuesHere
    /\ ~PastTheSlab
    /\ member_start' = member_start + N[m]
    /\ m' = m + 1
    /\ UNCHANGED <<first, count, reading, slab, status, delivered, last>>

\* The break, or the end of the loop.
LeaveLoop ==
    /\ status = "streaming"
    /\ ~reading
    /\ m > M \/ PastTheSlab
    /\ status' = "done"
    /\ UNCHANGED <<first, count, m, member_start, reading, slab, delivered, last>>

Next ==
    \/ OpenPiece
    \/ OpenPieceFails
    \/ Chunk
    \/ ChunkFails
    \/ PieceDone
    \/ SkipMember
    \/ LeaveLoop

Spec == Init /\ [][Next]_vars

-----------------------------------------------------------------------------
(* The contract of the stream.  Rows of members are renamed to rows of the *)
(* aggregate by the offset of the member.                                  *)

Contract == INSTANCE SlabStream WITH
    pos  <- first + delivered,
    last <- [from |-> Offset[last.member - 1] + last.from, rows |-> last.rows]

\* The walk over the members (ncml/mod.rs:281-321) implements the contract of
\* variable_xdr: whatever the member lengths and the slab, the pieces are
\* exactly the requested rows of the aggregate, in order, and the loop ends
\* without an error only after the last of them.
ImplementsContract == Contract!Spec

\* A member file is only opened when rows of it were asked for: a boundary
\* that falls on the end of the slab does not touch the next file
\* (ncml/mod.rs:296, :316).
OpensOnlyNeededMembers ==
    [][~reading /\ reading' =>
          \/ count = 0
          \/ member_start < first + count /\ first < member_start + N[m]]_vars

-----------------------------------------------------------------------------
(* The inductive invariant, by parts.                                       *)

\* member_start is the offset of the member the loop is at.
RunningSum == member_start = Offset[m - 1]

\* The slab lies inside the aggregate.
SlabInside == first < Total /\ first + count <= Total

\* Between two members, exactly the rows that lie before member_start have
\* left.
DeliveredBetween ==
    status = "streaming" /\ ~reading =>
        delivered = IF member_start <= first THEN 0
                    ELSE MinOf(member_start - first, count)

\* Within a member, the piece being drained starts at the row that must leave
\* next and ends with the slab or with the member, whichever comes first.
DeliveredWithin ==
    reading =>
        /\ m <= M
        /\ member_start + slab.from = first + delivered
        /\ member_start + slab.from + slab.left
              = MinOf(first + count, member_start + N[m])
        /\ first < member_start + N[m]

\* What left last are rows of the member it is said to come from.
LastInside ==
    /\ delivered <= count
    /\ last.rows = 0 \/ last.from + last.rows <= N[last.member]

\* The strengthening that makes ImplementsContract inductive, and the reason
\* why none of the subtractions of the loop is ever below zero
\* (ncml/mod.rs:284-298): the running sum and the position in the piece always
\* add up to the rows already delivered, and a stream that ended well has
\* delivered all of them.
LoopInv ==
    /\ RunningSum
    /\ SlabInside
    /\ DeliveredBetween
    /\ DeliveredWithin
    /\ LastInside
    /\ status = "done" => delivered = count
=============================================================================
