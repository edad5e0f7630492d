----------------------------- MODULE SlabStream -----------------------------
(***************************************************************************)
(* What DodsXdr::variable_xdr promises of one constrained variable along   *)
(* its outermost dimension, whatever the data source: the rows             *)
(* first .. first + count - 1 of the variable leave in order, none missing *)
(* and none repeated, and the stream may only end before the last of them  *)
(* by failing.  This is the contract that the DODS writer relies on when   *)
(* it announces the Content-Length before the first byte is read.          *)
(***************************************************************************)
EXTENDS Naturals

VARIABLES
    first,   \* first requested row (indices[0])
    count,   \* number of requested rows (counts[0])
    pos,     \* the row that must leave next
    last,    \* the rows that left last: [from, rows]
    status   \* "streaming", "done" or "failed"

vars == <<first, count, pos, last, status>>

Init ==
    /\ first \in Nat
    /\ count \in Nat
    /\ pos = first
    /\ last = [from |-> first, rows |-> 0]
    /\ status = "streaming"

\* The next n rows leave.
Emit ==
    /\ status = "streaming"
    /\ \E n \in 1..(first + count - pos) :
          /\ last' = [from |-> pos, rows |-> n]
          /\ pos' = pos + n
    /\ UNCHANGED <<first, count, status>>

\* The stream ends well, which it may only do after the last row.
Finish ==
    /\ status = "streaming"
    /\ pos = first + count
    /\ status' = "done"
    /\ UNCHANGED <<first, count, pos, last>>

\* The stream ends with an error, at any point.
Fail ==
    /\ status = "streaming"
    /\ status' = "failed"
    /\ UNCHANGED <<first, count, pos, last>>

Next == Emit \/ Finish \/ Fail

Spec == Init /\ [][Next]_vars
=============================================================================
