-------------------------------- MODULE Dods --------------------------------
(***************************************************************************)
(* The data response: Dods::dods (dap2/src/dods/mod.rs) and the handler    *)
(* that turns it into an HTTP response (dars/src/data/handlers.rs).  The   *)
(* length of the body is announced before the first byte of data is read;  *)
(* the body is the DDS, a separator, and for every part of the response a  *)
(* length prefix (unless it is a scalar) and its bytes as variable_xdr     *)
(* yields them.                                                            *)
(*                                                                         *)
(* variable_xdr is the contract of SlabStream: the bytes of the slab in    *)
(* chunks of any size, or an error at any point.                           *)
(***************************************************************************)
EXTENDS Dds

CONSTANTS
    Constraints,   \* the constraints that clients send
    HeaderLen,     \* length of the DDS text
    Word32         \* the values of a u32 are 0 .. Word32 - 1

\* Every slice has one to three numbers: TypeOK of Constraint.
ASSUME ConstraintsAssumption ==
    \A c \in Constraints :
        /\ Len(c) \in Nat
        /\ \A i \in 1..Len(c) :
              /\ c[i].struct \in BOOLEAN
              /\ c[i].slab # <<>> =>
                    /\ Len(c[i].slab[1]) \in Nat
                    /\ \A d \in 1..Len(c[i].slab[1]) :
                          /\ c[i].slab[1][d] \in Seq(Nat)
                          /\ Len(c[i].slab[1][d]) \in 1..3

ASSUME LengthsAssumption == HeaderLen \in Nat /\ Word32 \in Nat /\ 1 < Word32 /\ Word32 <= Word

VARIABLES
    constraint,       \* the constraint of the request
    status,           \* "received", "refused", "streaming", "done" or "broken"
    response,         \* the DdsResponse
    content_length,   \* the header
    stage,            \* what leaves next: "dds", "separator", "prefix", "open", "data"
    k,                \* the part of the response the stream is at
    left,             \* bytes of that part still to come
    prefix,           \* the length announced for that part, -1 if none
    sent              \* history: bytes of the body so far

vars == <<constraint, status, response, content_length, stage, k, left, prefix, sent>>

SeparatorLen == 8   \* "\n\nData:\n"
PrefixLen == 8      \* xdr_length: the length as a u32, twice

Init ==
    /\ constraint \in Constraints
    /\ status = "received"
    /\ response = <<>>
    /\ content_length = 0
    /\ stage = "dds"
    /\ k = 1
    /\ left = 0
    /\ prefix = -1
    /\ sent = 0

\* self.dds().await.dds(&constraint)? fails: the handler rejects the request.
Refuse ==
    /\ status = "received"
    /\ ~DdsAccepted(constraint)
    /\ status' = "refused"
    /\ UNCHANGED <<constraint, response, content_length, stage, k, left, prefix, sent>>

\* The length is computed from the response and the headers leave.
Respond ==
    /\ status = "received"
    /\ DdsAccepted(constraint)
    /\ response' = Response(constraint)
    /\ content_length' = Wrap(ResponseSize(response') + HeaderLen + SeparatorLen)
    /\ status' = "streaming"
    /\ UNCHANGED <<constraint, stage, k, left, prefix, sent>>

PartsLeft == k <= Len(AllParts(response))

Part == AllParts(response)[k]

\* The bytes of one element as hidefix streams them: the native ones, twice as
\* many for 16 bit integers (dsize * xdr_factor, see ncml/mod.rs:350).
StreamedSize(type) == Size(type) * (IF type \in {"Int16", "UInt16"} THEN 2 ELSE 1)

\* The bytes that the slab of the part has.
PartBytes(part) == StreamedSize(part.type) * Product(part.counts)

Yield(n) == sent' = sent + n

SendDds ==
    /\ status = "streaming"
    /\ stage = "dds"
    /\ Yield(HeaderLen)
    /\ stage' = "separator"
    /\ UNCHANGED <<constraint, status, response, content_length, k, left, prefix>>

SendSeparator ==
    /\ status = "streaming"
    /\ stage = "separator"
    /\ Yield(SeparatorLen)
    /\ stage' = "prefix"
    /\ UNCHANGED <<constraint, status, response, content_length, k, left, prefix>>

\* v.len() as u32.  A definition X_Y that precedes X is a mutation of X: a
\* plausible mistake at that place.
Announced_Bytes(part) == (part.size * XdrSize(part.type)) % Word32

Announced(part) == part.size % Word32

\* if !v.is_scalar() { yield xdr_length(v.len() as u32) }
SendPrefix ==
    /\ status = "streaming"
    /\ stage = "prefix"
    /\ PartsLeft
    /\ IF IsScalar(Part)
       THEN prefix' = -1 /\ UNCHANGED sent
       ELSE prefix' = Announced(Part) /\ Yield(PrefixLen)
    /\ stage' = "open"
    /\ UNCHANGED <<constraint, status, response, content_length, k, left>>

\* slf.variable_xdr(&v).await? succeeds.
OpenPart ==
    /\ status = "streaming"
    /\ stage = "open"
    /\ left' = PartBytes(Part)
    /\ stage' = "data"
    /\ UNCHANGED <<constraint, status, response, content_length, k, prefix, sent>>

\* while let Some(b) = reader.next().await { yield b; }
SendChunk ==
    /\ status = "streaming"
    /\ stage = "data"
    /\ \E n \in 1..left : Yield(n) /\ left' = left - n
    /\ UNCHANGED <<constraint, status, response, content_length, stage, k, prefix>>

NextPart ==
    /\ status = "streaming"
    /\ stage = "data"
    /\ left = 0
    /\ k' = k + 1
    /\ stage' = "prefix"
    /\ UNCHANGED <<constraint, status, response, content_length, left, prefix, sent>>

\* The source refuses the part or fails while it is read; the error ends the
\* body early, which the client notices by its length.
Break_Unnoticed ==
    /\ status = "streaming"
    /\ stage \in {"open", "data"}
    /\ status' = "done"
    /\ UNCHANGED <<constraint, response, content_length, stage, k, left, prefix, sent>>

Break ==
    /\ status = "streaming"
    /\ stage \in {"open", "data"}
    /\ status' = "broken"
    /\ UNCHANGED <<constraint, response, content_length, stage, k, left, prefix, sent>>

Finish ==
    /\ status = "streaming"
    /\ stage = "prefix"
    /\ ~PartsLeft
    /\ status' = "done"
    /\ UNCHANGED <<constraint, response, content_length, stage, k, left, prefix, sent>>

Next ==
    \/ Refuse \/ Respond
    \/ SendDds \/ SendSeparator
    \/ SendPrefix \/ OpenPart \/ SendChunk \/ NextPart
    \/ Break \/ Finish

Spec == Init /\ [][Next]_vars

\* The request is handled, and the body is polled while the client reads it.
FairSpec == Spec /\ WF_vars(Next)

-----------------------------------------------------------------------------
(* Properties.                                                              *)

TypeOK ==
    /\ constraint \in Constraints
    /\ status \in {"received", "refused", "streaming", "done", "broken"}
    /\ content_length \in 0..(Word - 1)
    /\ stage \in {"dds", "separator", "prefix", "open", "data"}
    /\ k \in 1..(Len(AllParts(response)) + 1)
    /\ left \in Nat
    /\ prefix \in -1..(Word32 - 1)
    /\ sent \in Nat

\* The Content-Length that is announced before anything is read (dods/mod.rs:70)
\* is the length of the body, whatever the mixture of scalars, arrays, grids and
\* structure members, and however the source cuts its chunks: a body is never
\* longer, one that is shorter belongs to a response that broke off, and every
\* response comes to an end.
Body == INSTANCE HttpBody WITH
    state <- CASE status = "received" -> "asked"
               [] status = "streaming" -> "open"
               [] status = "done" -> "complete"
               [] status = "broken" -> "aborted"
               [] OTHER -> status,
    announced <- content_length

KeepsToTheHttpContract == Body!FairSpec

\* Every part that is handed to variable_xdr lies inside its variable, the
\* maps of a grid included, whose slab is derived from the slab of the grid
\* (dds.rs:161-223, :342-364): the index never leads outside the dataset, and
\* neither NcmlDataset's subtractions nor its cached coordinate slice can go
\* wrong.
SlabsInRange ==
    \A p \in 1..Len(AllParts(response)) :
        LET part == AllParts(response)[p]
            shape == Var(part.name).shape
        IN  /\ Len(part.indices) = Len(shape) /\ Len(part.counts) = Len(shape)
            /\ \A d \in 1..Len(shape) :
                  part.counts[d] >= 0 /\ part.indices[d] + part.counts[d] <= shape[d]

\* "Arrays are prepended with their XDR encoded length as u32 twice"
\* (dods/mod.rs:14): the prefix is the number of elements that follow.
PrefixIsLength ==
    status = "streaming" /\ stage = "data" /\ ~IsScalar(Part) =>
        prefix * StreamedSize(Part.type) = PartBytes(Part)

\* A client takes the extents from the DDS text: "DDS responses describe the
\* data type, size" (dds.rs:3).  They have to be those of the data, for the
\* variable, the member of a structure and the maps of a grid alike.
ShownSize(part) == Product([d \in 1..Len(part.dims) |-> part.dims[d][2]])

DdsDescribesData ==
    status = "streaming" /\ stage = "data" =>
        ShownSize(Part) * StreamedSize(Part.type) = PartBytes(Part)

\* The response to a constraint is "sorted the same way the initial free DDS
\* query of all variables are" (dds.rs:423-424), in whatever order the
\* constraint names them.  The one is sorted by position and the other by name,
\* so this is about files that list their variables by name.
SortedLikeAll ==
    \A i, j \in 1..Len(response) :
        i < j => \E p, q \in 1..Len(All) :
            p <= q /\ All[p].key = response[i].key /\ All[q].key = response[j].key

-----------------------------------------------------------------------------
(* What the proofs assume of the file and the constraints, each where it is *)
(* needed.                                                                  *)

PartLength(part) == PartBytes(part) + (IF IsScalar(part) THEN 0 ELSE PrefixLen)

Lengths(parts) == [p \in 1..Len(parts) |-> PartLength(parts[p])]

\* The length of a body up to its n-th part, without wrapping.
LengthTo(parts, n) == HeaderLen + SeparatorLen + SumTo(Lengths(parts), n)

BodyLength(parts) == LengthTo(parts, Len(parts))

\* The length of no body exceeds a usize.
BodiesFit ==
    \A c \in Constraints : DdsAccepted(c) => BodyLength(AllParts(Response(c))) < Word

\* The number of elements of no part exceeds the prefix, which is a u32.
PrefixesFit ==
    \A c \in Constraints : DdsAccepted(c) =>
        \A p \in 1..Len(AllParts(Response(c))) :
            Product(AllParts(Response(c))[p].counts) < Word32

\* Every dimension has a name: what an unlabelled variable of several dimensions
\* has not.
WellLabelled == \A v \in Variables : Len(v.shape) <= Len(v.dims)

ListedByName ==
    \A v, w \in Variables : v.name < w.name => Position(v.name) < Position(w.name)

-----------------------------------------------------------------------------
(* The inductive invariant: what was sent is the beginning of the body up to *)
(* the stage of the current part.                                           *)

Answering == status \in {"streaming", "done", "broken"}

SentSoFar ==
    CASE stage = "dds" -> sent = 0
      [] stage = "separator" -> sent = HeaderLen
      [] stage = "prefix" -> sent = LengthTo(AllParts(response), k - 1)
      [] stage = "open" -> sent + PartBytes(Part) = LengthTo(AllParts(response), k)
      [] stage = "data" -> sent + left = LengthTo(AllParts(response), k)

BodyInv ==
    /\ constraint \in Constraints
    /\ status \in {"received", "refused"} \/ Answering
    /\ stage \in {"dds", "separator", "prefix", "open", "data"}
    /\ prefix \in -1..(Word32 - 1)
    /\ left \in Nat
    /\ sent \in Nat
    /\ k \in 1..(Len(AllParts(response)) + 1)
    /\ status \in {"received", "refused"} =>
          response = <<>> /\ content_length = 0 /\ stage = "dds"
    /\ Answering =>
          /\ DdsAccepted(constraint)
          /\ response = Response(constraint)
          /\ content_length = Wrap(ResponseSize(response) + HeaderLen + SeparatorLen)
    /\ stage \in {"dds", "separator"} => k = 1
    /\ stage \in {"open", "data"} =>
          PartsLeft /\ prefix = IF IsScalar(Part) THEN -1 ELSE Announced(Part)
    /\ stage = "data" => left <= PartBytes(Part)
    /\ SentSoFar
    /\ status = "done" => stage = "prefix" /\ ~PartsLeft
=============================================================================
