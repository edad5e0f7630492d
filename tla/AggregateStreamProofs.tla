------------------------ MODULE AggregateStreamProofs ------------------------
(***************************************************************************)
(* Proofs about AggregateStream, for every number of members, every length *)
(* of each of them and every slab.                                         *)
(***************************************************************************)
EXTENDS AggregateStream, TLAPS

\* The rows of all members together are a natural number.
LEMMA TotalIsNat == Total \in Nat
BY MembersAssumption, OffsetAssumption DEF Total

\* Both hold of every initial state.
LEMMA InitOK == Init => TypeOK /\ LoopInv
<1> USE MembersAssumption, OffsetAssumption, TotalIsNat
<1> SUFFICES ASSUME Init PROVE TypeOK /\ LoopInv
  OBVIOUS
<1>1. first \in Nat /\ count \in Nat /\ first < Total /\ first + count <= Total
  BY DEF Init
<1>2. 1 \in 1..M /\ 1 \in 1..(M + 1) /\ 0 \in Nat
  OBVIOUS
<1>3. slab \in [from : Nat, left : Nat]
  BY <1>2 DEF Init
<1>4. last \in [member : 1..M, from : Nat, rows : Nat] /\ last.rows = 0
  BY <1>1, <1>2 DEF Init
<1>5. TypeOK
  BY <1>1, <1>2, <1>3, <1>4 DEF Init, TypeOK
<1>6. RunningSum /\ SlabInside /\ LastInside
  BY <1>1, <1>4 DEF Init, RunningSum, SlabInside, LastInside
<1>7. DeliveredBetween /\ DeliveredWithin /\ (status = "done" => delivered = count)
  BY <1>1 DEF Init, DeliveredBetween, DeliveredWithin
<1>8. QED
  BY <1>5, <1>6, <1>7 DEF LoopInv

\* The state variables keep their types and the loop its invariant: whatever
\* the slab and the member lengths, the running sum, the position in the piece
\* and the rows delivered agree after every step of the loop
\* (ncml/mod.rs:279-321).
THEOREM TypeCorrect == Spec => [](TypeOK /\ LoopInv)
<1>1. Init => TypeOK /\ LoopInv
  BY InitOK
<1>2. TypeOK /\ LoopInv /\ [Next]_vars => (TypeOK /\ LoopInv)'
  <2> SUFFICES ASSUME TypeOK, LoopInv, [Next]_vars
               PROVE  TypeOK' /\ LoopInv'
    OBVIOUS
  <2> USE DEF LoopInv
  <2>0. /\ first \in Nat /\ count \in Nat /\ member_start \in Nat
        /\ delivered \in Nat
        /\ slab.from \in Nat /\ slab.left \in Nat
        /\ last.from \in Nat /\ last.rows \in Nat /\ last.member \in 1..M
        /\ m \in 1..(M + 1) /\ M \in Nat
    BY MembersAssumption DEF TypeOK
  <2>m. ASSUME m <= M
        PROVE  m \in 1..M /\ N[m] \in Nat \ {0} /\ Offset[m] = member_start + N[m]
    <3>1. m \in 1..M
      BY <2>0, <2>m
    <3>2. QED
      BY <3>1, MembersAssumption, OffsetAssumption DEF RunningSum
  <2>1. CASE OpenPiece
    <3>1. /\ UNCHANGED <<first, count, m, member_start, status, delivered, last>>
          /\ reading' = TRUE /\ status = "streaming" /\ ~reading /\ m <= M
      BY <2>1 DEF OpenPiece, AtLoopHead
    <3>2. m \in 1..M /\ N[m] \in Nat \ {0}
      BY <2>m, <3>1
    <3>3. /\ slab' \in [from : Nat, left : Nat]
          /\ DeliveredWithin'
      <4>1. CASE StartsHere /\ slab' = FirstPiece
        <5>1. member_start <= first /\ first < member_start + N[m]
          BY <4>1 DEF StartsHere
        <5> DEFINE f == first - member_start
                   l == MinOf(count, N[m] - (first - member_start))
        <5>2. f \in Nat /\ l \in Nat
          BY <2>0, <3>2, <5>1 DEF MinOf
        <5>3. slab' = [from |-> f, left |-> l]
          BY <4>1 DEF FirstPiece
        <5>4. delivered = 0
          BY <2>0, <3>1, <5>1 DEF DeliveredBetween
        <5>5. slab'.from = f /\ slab'.left = l
          BY <5>3
        <5>6. /\ member_start + f = first
              /\ member_start + f + l = MinOf(first + count, member_start + N[m])
          BY <2>0, <3>2, <5>1 DEF MinOf
        <5>7. DeliveredWithin'
          BY <2>0, <3>1, <5>1, <5>4, <5>5, <5>6 DEF DeliveredWithin, MinOf
        <5>8. QED
          BY <5>2, <5>3, <5>7
      <4>2. CASE ContinuesHere /\ slab' = NextPiece
        <5>1. first < member_start /\ member_start < first + count
          BY <4>2 DEF ContinuesHere
        <5> DEFINE l == MinOf(first + count - member_start, N[m])
        <5>2. l \in Nat
          BY <2>0, <3>2, <5>1 DEF MinOf
        <5>3. slab' = [from |-> 0, left |-> l]
          BY <4>2 DEF NextPiece
        <5>4. delivered = member_start - first
          BY <2>0, <3>1, <5>1 DEF DeliveredBetween, MinOf
        <5>5. slab'.from = 0 /\ slab'.left = l
          BY <5>3
        <5>6. member_start + 0 + l = MinOf(first + count, member_start + N[m])
          BY <2>0, <3>2, <5>1 DEF MinOf
        <5>7. DeliveredWithin'
          BY <2>0, <3>1, <3>2, <5>1, <5>4, <5>5, <5>6 DEF DeliveredWithin, MinOf
        <5>8. QED
          BY <5>2, <5>3, <5>7
      <4>3. QED
        BY <2>1, <4>1, <4>2 DEF OpenPiece
    <3>4. TypeOK'
      BY <3>1, <3>3 DEF TypeOK
    <3>5. QED
      BY <3>1, <3>3, <3>4 DEF RunningSum, SlabInside, LastInside, DeliveredBetween
  <2>2. CASE OpenPieceFails
    <3>1. TypeOK'
      BY <2>2 DEF OpenPieceFails, TypeOK
    <3>2. QED
      BY <2>2, <3>1 DEF OpenPieceFails, AtLoopHead, RunningSum, SlabInside,
                        LastInside, DeliveredBetween, DeliveredWithin
  <2>3. CASE Chunk
    <3>1. PICK k \in 1..slab.left :
            /\ slab' = [from |-> slab.from + k, left |-> slab.left - k]
            /\ delivered' = delivered + k
            /\ last' = [member |-> m, from |-> slab.from, rows |-> k]
      BY <2>3 DEF Chunk
    <3>2. /\ UNCHANGED <<first, count, m, member_start, reading, status>>
          /\ reading /\ status = "streaming"
      BY <2>3 DEF Chunk
    <3>3. /\ k \in Nat /\ slab.left - k \in Nat /\ slab.from + k \in Nat
          /\ delivered + k \in Nat
      BY <2>0, <3>1
    <3>4. /\ slab' \in [from : Nat, left : Nat]
          /\ slab'.from = slab.from + k /\ slab'.left = slab.left - k
      BY <3>1, <3>3
    <3>5. m <= M /\ m \in 1..M /\ N[m] \in Nat \ {0}
      BY <2>m, <3>2 DEF DeliveredWithin
    <3>6. /\ last' \in [member : 1..M, from : Nat, rows : Nat]
          /\ last'.member = m /\ last'.from = slab.from /\ last'.rows = k
      BY <2>0, <3>1, <3>3, <3>5
    <3>7. TypeOK'
      BY <3>1, <3>2, <3>3, <3>4, <3>6 DEF TypeOK
    <3>8. DeliveredWithin'
      <4>1. /\ member_start + (slab.from + k) = first + (delivered + k)
            /\ member_start + (slab.from + k) + (slab.left - k)
                  = MinOf(first + count, member_start + N[m])
            /\ first < member_start + N[m]
        BY <2>0, <3>2, <3>3, <3>5 DEF DeliveredWithin
      <4>2. QED
        BY <3>1, <3>2, <3>4, <3>5, <4>1 DEF DeliveredWithin, MinOf
    <3>9. LastInside'
      <4>1. slab.from + k <= N[m] /\ delivered + k <= count
        BY <2>0, <3>1, <3>2, <3>3, <3>5 DEF DeliveredWithin, MinOf
      <4>2. QED
        BY <3>1, <3>2, <3>6, <4>1 DEF LastInside
    <3>10. QED
      BY <3>2, <3>7, <3>8, <3>9 DEF RunningSum, SlabInside, DeliveredBetween
  <2>4. CASE ChunkFails
    <3>1. TypeOK'
      BY <2>4 DEF ChunkFails, TypeOK
    <3>2. QED
      BY <2>4, <3>1 DEF ChunkFails, RunningSum, SlabInside, LastInside,
                        DeliveredBetween, DeliveredWithin
  <2>5. CASE PieceDone
    <3>1. /\ UNCHANGED <<first, count, slab, status, delivered, last>>
          /\ status = "streaming" /\ reading /\ slab.left = 0 /\ reading' = FALSE
          /\ member_start' = member_start + N[m] /\ m' = m + 1
      BY <2>5 DEF PieceDone
    <3>2. /\ m <= M /\ m \in 1..M /\ N[m] \in Nat \ {0}
          /\ Offset[m] = member_start + N[m]
      BY <2>m, <3>1 DEF DeliveredWithin
    <3>3. /\ RunningSum'
          /\ m' \in 1..(M + 1) /\ member_start' \in Nat
      BY <2>0, <3>1, <3>2 DEF RunningSum
    <3>4. DeliveredBetween'
      <4>1. /\ member_start + N[m] > first
            /\ delivered = MinOf(member_start + N[m] - first, count)
        BY <2>0, <3>1, <3>2 DEF DeliveredWithin, MinOf
      <4>2. QED
        BY <2>0, <3>1, <3>2, <4>1 DEF DeliveredBetween, MinOf
    <3>5. TypeOK'
      BY <3>1, <3>3 DEF TypeOK
    <3>6. QED
      BY <3>1, <3>3, <3>4, <3>5 DEF SlabInside, LastInside, DeliveredWithin
  <2>6. CASE SkipMember
    <3>1. /\ UNCHANGED <<first, count, reading, slab, status, delivered, last>>
          /\ status = "streaming" /\ ~reading /\ m <= M
          /\ member_start' = member_start + N[m] /\ m' = m + 1
      BY <2>6 DEF SkipMember, AtLoopHead
    <3>2. m \in 1..M /\ N[m] \in Nat \ {0} /\ Offset[m] = member_start + N[m]
      BY <2>m, <3>1
    <3>3. /\ RunningSum'
          /\ m' \in 1..(M + 1) /\ member_start' \in Nat
      BY <2>0, <3>1, <3>2 DEF RunningSum
    <3>4. DeliveredBetween'
      <4>1. \/ member_start + N[m] <= first
            \/ member_start > first /\ member_start = first + count
        BY <2>0, <2>6, <3>2
           DEF SkipMember, StartsHere, ContinuesHere, PastTheSlab
      <4>2. QED
        BY <2>0, <3>1, <3>2, <4>1 DEF DeliveredBetween, MinOf
    <3>5. TypeOK'
      BY <3>1, <3>3 DEF TypeOK
    <3>6. QED
      BY <3>1, <3>3, <3>4, <3>5 DEF SlabInside, LastInside, DeliveredWithin
  <2>7. CASE LeaveLoop
    <3>1. /\ UNCHANGED <<first, count, m, member_start, reading, slab, delivered, last>>
          /\ status = "streaming" /\ ~reading /\ status' = "done"
      BY <2>7 DEF LeaveLoop
    <3>2. m > M => member_start = Total
      BY <2>0 DEF RunningSum, Total
    <3>3. delivered = count
      BY <2>0, <2>7, <3>1, <3>2, TotalIsNat
         DEF LeaveLoop, PastTheSlab, SlabInside, DeliveredBetween, MinOf
    <3>4. TypeOK'
      BY <3>1 DEF TypeOK
    <3>5. QED
      BY <3>1, <3>3, <3>4 DEF RunningSum, SlabInside, LastInside,
                              DeliveredBetween, DeliveredWithin
  <2>8. CASE UNCHANGED vars
    <3>1. TypeOK'
      BY <2>8 DEF vars, TypeOK
    <3>2. QED
      BY <2>8, <3>1 DEF vars, RunningSum, SlabInside, LastInside,
                        DeliveredBetween, DeliveredWithin
  <2>9. QED
    BY <2>1, <2>2, <2>3, <2>4, <2>5, <2>6, <2>7, <2>8 DEF Next
<1>3. QED
  BY <1>1, <1>2, PTL DEF Spec

\* The offset, the length and the members that the loop works on are of the
\* right types, and no subtraction of the loop goes below zero
\* (ncml/mod.rs:281-316).
THEOREM TypesHold == Spec => []TypeOK
BY TypeCorrect, PTL

-----------------------------------------------------------------------------
\* The walk over the members refines the contract of variable_xdr
\* (ncml/mod.rs:279-321): every chunk is the next run of requested rows of the
\* aggregate, and the stream only ends well after the last of them.  A chunk
\* is a step of the contract's Emit, leaving the loop its Finish, a failing
\* member its Fail; opening a piece and moving to the next member stutter.
THEOREM RefinesContract == Spec => ImplementsContract
<1>1. Init => Contract!Init
  <2> SUFFICES ASSUME Init PROVE Contract!Init
    OBVIOUS
  <2>1. first \in Nat /\ count \in Nat /\ first + delivered = first
    BY TotalIsNat DEF Init
  <2>2. Offset[last.member - 1] + last.from = first /\ last.rows = 0
    BY <2>1, OffsetAssumption DEF Init
  <2>3. QED
    BY <2>1, <2>2 DEF Init, Contract!Init
<1>2. TypeOK /\ LoopInv /\ [Next]_vars => [Contract!Next]_(Contract!vars)
  <2> SUFFICES ASSUME TypeOK, LoopInv, [Next]_vars
               PROVE  [Contract!Next]_(Contract!vars)
    OBVIOUS
  <2> USE DEF LoopInv
  <2>0. /\ first \in Nat /\ count \in Nat /\ member_start \in Nat
        /\ delivered \in Nat /\ slab.from \in Nat /\ slab.left \in Nat
        /\ m \in 1..(M + 1) /\ M \in Nat
    BY MembersAssumption DEF TypeOK
  <2>1. ASSUME UNCHANGED <<first, count, delivered, last, status>>
        PROVE  UNCHANGED Contract!vars
    BY <2>1 DEF Contract!vars
  <2>2. ASSUME UNCHANGED <<first, count, delivered, last>>,
               status = "streaming", status' = "failed"
        PROVE  Contract!Fail
    BY <2>2 DEF Contract!Fail
  <2>3. CASE OpenPiece
    BY <2>1, <2>3 DEF OpenPiece
  <2>4. CASE OpenPieceFails
    BY <2>2, <2>4 DEF OpenPieceFails, AtLoopHead, Contract!Next
  <2>5. CASE Chunk
    <3>1. PICK k \in 1..slab.left :
            /\ delivered' = delivered + k
            /\ last' = [member |-> m, from |-> slab.from, rows |-> k]
      BY <2>5 DEF Chunk
    <3>2. /\ UNCHANGED <<first, count, status>>
          /\ status = "streaming" /\ reading
      BY <2>5 DEF Chunk
    <3>3. m \in 1..M /\ N[m] \in Nat
      BY <2>0, <3>2, MembersAssumption DEF DeliveredWithin
    <3>4. last'.member = m /\ last'.from = slab.from /\ last'.rows = k
      BY <3>1
    <3>5. Offset[last'.member - 1] + last'.from = first + delivered
      BY <2>0, <3>2, <3>4 DEF DeliveredWithin, RunningSum
    <3>6. k \in 1..(first + count - (first + delivered))
      BY <2>0, <3>1, <3>2, <3>3 DEF DeliveredWithin, MinOf
    <3>7. first' + delivered' = first + delivered + k
      BY <2>0, <3>1, <3>2
    <3>8. Contract!Emit
      BY <3>2, <3>4, <3>5, <3>6, <3>7 DEF Contract!Emit
    <3>9. QED
      BY <3>8 DEF Contract!Next
  <2>6. CASE ChunkFails
    BY <2>2, <2>6 DEF ChunkFails, Contract!Next
  <2>7. CASE PieceDone
    BY <2>1, <2>7 DEF PieceDone
  <2>8. CASE SkipMember
    BY <2>1, <2>8 DEF SkipMember
  <2>9. CASE LeaveLoop
    <3>1. /\ UNCHANGED <<first, count, delivered, last>>
          /\ status = "streaming" /\ ~reading /\ status' = "done"
      BY <2>9 DEF LeaveLoop
    <3>2. m > M => member_start = Total
      BY <2>0 DEF RunningSum, Total
    <3>3. first + delivered = first + count
      BY <2>0, <2>9, <3>1, <3>2, TotalIsNat
         DEF LeaveLoop, PastTheSlab, SlabInside, DeliveredBetween, MinOf
    <3>4. QED
      BY <3>1, <3>3 DEF Contract!Finish, Contract!Next
  <2>10. CASE UNCHANGED vars
    BY <2>1, <2>10 DEF vars
  <2>11. QED
    BY <2>3, <2>4, <2>5, <2>6, <2>7, <2>8, <2>9, <2>10 DEF Next
<1>3. QED
  BY <1>1, <1>2, TypeCorrect, PTL DEF Spec, ImplementsContract, Contract!Spec

\* No member file is opened that holds no requested row (ncml/mod.rs:282, :296),
\* however long the members are and wherever the slab ends.
THEOREM OpensOnlyNeeded == Spec => OpensOnlyNeededMembers
<1> DEFINE Needed == ~reading /\ reading' =>
                        \/ count = 0
                        \/ member_start < first + count /\ first < member_start + N[m]
<1>1. TypeOK /\ [Next]_vars => [Needed]_vars
  <2> SUFFICES ASSUME TypeOK, Next, ~reading, reading'
               PROVE \/ count = 0
                     \/ member_start < first + count /\ first < member_start + N[m]
    OBVIOUS
  <2>1. OpenPiece
    BY DEF Next, OpenPiece, OpenPieceFails, Chunk, ChunkFails, PieceDone, SkipMember, LeaveLoop
  <2>2. m \in 1..M /\ N[m] \in Nat
    BY <2>1, MembersAssumption DEF TypeOK, OpenPiece, AtLoopHead
  <2>3. first \in Nat /\ count \in Nat /\ member_start \in Nat
    BY DEF TypeOK
  <2>4. CASE StartsHere
    BY <2>2, <2>3, <2>4 DEF StartsHere
  <2>5. CASE ContinuesHere
    BY <2>2, <2>3, <2>5 DEF ContinuesHere
  <2> QED BY <2>1, <2>4, <2>5 DEF OpenPiece
<1> QED
  BY <1>1, TypeCorrect, PTL DEF Spec, OpensOnlyNeededMembers
=============================================================================
